---- MODULE Spec2Model ----
(***************************************************************************)
(* A model of the git object writer of pns (GitRepo in git.go) and of the  *)
(* import loop updateDB (cmd/pns/update.go).                               *)
(*                                                                         *)
(* Scaling.  The program writes ids in decimal and groups the digits by    *)
(* two: strconv.FormatInt(id, 10), "%02d", the literal 100 and             *)
(* gitChunkSize = 1000 are 10, 10^2 and 10^3.  The model keeps these       *)
(* relations and takes the number base as its parameter Base: Radix is     *)
(* Base^2 and gitChunkSize is Base^3.  With Base = 10 every definition     *)
(* below is the program's own arithmetic; the state machine is explored    *)
(* with a small Base so that the runs cross every level of the tree and    *)
(* the end of the first chunk.  The import loop's batch size (5000 in      *)
(* update.go) is the parameter BatchSize in the same way.  The pure        *)
(* function idToGitName is also evaluated in base ten (gitName(10, id)).   *)
(*                                                                         *)
(* Further sections model the sessions of the server (sessions.go), the    *)
(* export and parse of notes, two callers of hashObject and of             *)
(* addWriteTree at a time, and DB.updateNote and DB.addNote (db.go).       *)
(***************************************************************************)
EXTENDS Integers, Sequences, FiniteSets, TLC

\* ------------------------------------------------------------- parameters
\* The number base of the id encoding (10 in the program).
Base == 2
\* The import loop flushes every BatchSize notes (5000 in the program).
BatchSize == 3
\* The longest list of notes updateDB is run on.
MaxNotes == 4
\* The most runes in the texts of one list of exported notes.
MaxTextLen == 6
\* The most notes in one export.
MaxSepNotes == 2
\* The longest ascending run 0, 1, 2, ... of direct addWriteTree calls.
MaxSeq == 33
\* The most direct addWriteTree calls made in an arbitrary order.
MaxCalls == 3
\* The largest id idToGitName is applied to on its own.
MaxId == 10000
\* strconv.FormatInt(id, 10)
DecimalBase == 10
\* The width of the int type in bits (32 or 64 in a build of the program).
IntBits == 8
\* The readings of the clock in one hour.
TicksPerHour == 2
\* The last reading of the clock.
MaxTime == 6
\* The most sessions NewSession makes.
MaxSessions == 2

\* The literal 100 of git.go: the fan-out of one level of the tree.
Radix == Base * Base
\* const gitChunkSize = 1000 // assumed to be at least 100 and multiple of 100
gitChunkSize == Base * Radix

\* SHA1{}: the zero hash, "no object".
emptySHA1 == 0

\* const maxInt = int(^uint(0) >> 1)
maxInt == 2 ^ (IntBits - 1) - 1

intMin(a, b) == IF a < b THEN a ELSE b
intMax(a, b) == IF a > b THEN a ELSE b

\* ------------------------------------------------------------- strings
\* A Go string is a sequence of one-character strings.
DigitChars == <<"0", "1", "2", "3", "4", "5", "6", "7", "8", "9">>

RECURSIVE FormatIntB(_, _)
\* strconv.FormatInt(n, base) for n >= 0: the digits, most significant first.
FormatIntB(base, n) ==
    IF n < base THEN <<DigitChars[n + 1]>>
    ELSE Append(FormatIntB(base, n \div base), DigitChars[(n % base) + 1])

\* fmt.Sprintf("%02d", n) for n >= 0: at least two digits, zero padded.
Sprintf02dB(base, n) ==
    LET s == FormatIntB(base, n) IN IF Len(s) < 2 THEN <<"0">> \o s ELSE s

RECURSIVE JoinPairs(_, _)
\* The loop of idToGitName: s[i : i+2] for i = 0, 2, ..., a '/' before each
\* pair but the first (i counts from 0 as in the program).
JoinPairs(s, i) ==
    IF i >= Len(s) THEN <<>>
    ELSE (IF i > 0 THEN <<"/">> ELSE <<>>) \o SubSeq(s, i + 1, i + 2)
         \o JoinPairs(s, i + 2)

\* idToGitName without its case for two-digit names.
gitNameNoPrefix(base, id) ==
    LET s0 == FormatIntB(base, id)
        s  == IF Len(s0) % 2 = 1 THEN <<"0">> \o s0 ELSE s0
    IN JoinPairs(s, 0) \o <<".", "m", "d">>

\* idToGitName with the number base as a parameter.
gitName(base, id) ==
    LET s0 == FormatIntB(base, id)
        s  == IF Len(s0) % 2 = 1 THEN <<"0">> \o s0 ELSE s0
        b  == IF Len(s) = 2 THEN <<"0", "0", "/">> ELSE <<>>
    IN b \o JoinPairs(s, 0) \o <<".", "m", "d">>

idToGitName(id) == gitName(Base, id)

\* The names writeTree gives entry i: "%02d.md" for a blob, "%02d" for a tree.
BlobEntryName(i) == Sprintf02dB(Base, i) \o <<".", "m", "d">>
TreeEntryName(i) == Sprintf02dB(Base, i)

\* ------------------------------------------------------------- state
VARIABLES
    caller,    \* who drives the GitRepo: "updateDB", or "api" (direct calls)
    notes,     \* updateDB: the notes db.AllNotes() returned, in rowid order
    i,         \* updateDB: the index of the loop over notes
    parent,    \* updateDB: var parent SHA1
    pc,        \* the position of the running code
    g,         \* the GitRepo: blobs, trees, blobsCnt, treesCnt, author, indexBuf
    awt,       \* the frame of addWriteTree: its id and its loop variable i
    ho,        \* the frame of hashObject
    sha1,      \* SHA-1 as a table: the hash of an encoded object is its place
    objs,      \* the files under objects/<xx>/<38 hex digits>
    tmps,      \* the files under objects/<xx>/<38 hex digits>.tmp
    dirs,      \* the directories under objects/
    ref,       \* the branch ref as git update-ref left it
    index,     \* the lines git update-index --index-info has taken
    calls,     \* history: the (id, blob hash) pairs passed to addWriteTree
    result,    \* history: what the last addWriteTree call returned
    commitLog, \* history: the commits writeCommit returned, oldest first
    flushLog,  \* history: the flush steps taken, as <<step, i>>
    fsLog,     \* history: the temporary files created and renamed, in order
    hoLog,     \* history: the calls of hashObject, as <<type, continuation>>
    cfgLog,    \* history: the git config queries, as <<key, answered>>
    probe,     \* idToGitName alone: an id and the name computed for it
    repo,      \* the refs of the repository when updateDB opens it
    head,      \* what g.getHEAD() returned to updateDB
    sessions,  \* the server's sessions: the map m and the time next
    clock,     \* what time.Now() returns
    issued,    \* history: the session ids NewSession has returned
    removed,   \* history: the session ids Remove has deleted from the map
    reply,     \* what the last call on sessions was given and returned
    cookies,   \* history: per session id, when its cookie was sent and shown
    xp,        \* export: the notes' texts, the separator, the file, parse's result
    cw,        \* two writers in hashObject on one directory: frames and files
    pw,        \* two workers in addWriteTree on one GitRepo: frames and g.buf
    db         \* DB.addNote and DB.updateNote: the database, git and the calls

gitVars == <<g, awt>>
diskVars == <<sha1, objs, tmps, dirs, ref, index>>
histVars == <<calls, result, commitLog, flushLog, fsLog, hoLog, cfgLog>>
\* The variables the object writer and the import loop leave alone.
webVars == <<sessions, clock, issued, removed, reply, cookies>>
auxVars == <<xp, cw, pw, db>>
aside == <<probe, repo, head, webVars, auxVars>>
vars == <<caller, notes, i, parent, pc, g, awt, ho, sha1, objs, tmps, dirs,
          ref, index, calls, result, commitLog, flushLog, fsLog, hoLog, cfgLog,
          probe, repo, head, sessions, clock, issued, removed, reply, cookies,
          xp, cw, pw, db>>

\* ------------------------------------------------------------- SHA-1
\* hashObject's encoding: the type name, the length and a NUL, then the
\* payload.  The length is a function of the payload.
Encoded(typ, b) == [typ |-> typ, b |-> b]

Lookup(tab, e) ==
    LET hit == {k \in 1..Len(tab) : tab[k].typ = e.typ /\ tab[k].b = e.b}
    IN IF hit = {} THEN 0 ELSE CHOOSE k \in hit : TRUE

\* sha1.New(); Write(header); Write(b); Sum: collision free, never zero.
SHA1sum(tab, e) == IF Lookup(tab, e) # 0 THEN Lookup(tab, e) ELSE Len(tab) + 1
Hashed(tab, e) == IF Lookup(tab, e) # 0 THEN tab ELSE Append(tab, e)

\* hex.EncodeToString(sum[:1]): the first byte of the hash names the directory.
HexDir(h) == h % 256

\* ------------------------------------------------------------- files
NewFile == [hdr |-> FALSE, body |-> FALSE, trailer |-> FALSE, open |-> TRUE]
\* A file holding the whole zlib stream of an object, closed.
Complete(f) == f.hdr /\ f.body /\ f.trailer /\ ~f.open
Without(f, h) == [x \in (DOMAIN f) \ {h} |-> f[x]]
With(f, h, v) == [x \in (DOMAIN f) \cup {h} |-> IF x = h THEN v ELSE f[x]]

\* ------------------------------------------------------------- chunked arrays
\* make([]SHA1, gitChunkSize)
NewChunk == [k \in 1..gitChunkSize |-> emptySHA1]

RECURSIVE Grow(_, _)
\* for n >= len(arr)*gitChunkSize { arr = append(arr, make([]SHA1, gitChunkSize)) }
Grow(arr, n) ==
    IF n >= Len(arr) * gitChunkSize THEN Grow(Append(arr, NewChunk), n) ELSE arr

\* arr[j/gitChunkSize][j%gitChunkSize], and whether the index is in range.
InRange(arr, j) == j >= 0 /\ j \div gitChunkSize < Len(arr)
At(arr, j) == arr[(j \div gitChunkSize) + 1][(j % gitChunkSize) + 1]
Put(arr, j, h) ==
    [arr EXCEPT ![(j \div gitChunkSize) + 1][(j % gitChunkSize) + 1] = h]

\* The slice expression s[lo:hi] of a slice of capacity gitChunkSize.
SliceOK(lo, hi) == 0 <= lo /\ lo <= hi /\ hi <= gitChunkSize
Slice(s, lo, hi) == SubSeq(s, lo + 1, hi)

\* ------------------------------------------------------------- writeTree
RECURSIVE TreeEntriesWithEmpty(_, _, _, _)
\* writeTree without its tests for the zero hash.
TreeEntriesWithEmpty(bs, ts, j, n) ==
    IF j >= n THEN <<>>
    ELSE (IF j < Len(bs)
            THEN <<[mode |-> "100644", name |-> BlobEntryName(j), hash |-> bs[j + 1]]>>
            ELSE <<>>)
         \o (IF j < Len(ts)
            THEN <<[mode |-> "40000", name |-> TreeEntryName(j), hash |-> ts[j + 1]]>>
            ELSE <<>>)
         \o TreeEntriesWithEmpty(bs, ts, j + 1, n)

RECURSIVE TreeEntries(_, _, _, _)
\* The loop of writeTree from index j: a blob entry, then a tree entry, for
\* every slot that is not the zero hash.
TreeEntries(bs, ts, j, n) ==
    IF j >= n THEN <<>>
    ELSE (IF j < Len(bs) /\ bs[j + 1] # emptySHA1
            THEN <<[mode |-> "100644", name |-> BlobEntryName(j), hash |-> bs[j + 1]]>>
            ELSE <<>>)
         \o (IF j < Len(ts) /\ ts[j + 1] # emptySHA1
            THEN <<[mode |-> "40000", name |-> TreeEntryName(j), hash |-> ts[j + 1]]>>
            ELSE <<>>)
         \o TreeEntries(bs, ts, j + 1, n)

\* The payload writeTree(blobs, trees) passes to hashObject(objectTree, ...).
writeTree(bs, ts) == TreeEntries(bs, ts, 0, intMax(Len(bs), Len(ts)))

\* ------------------------------------------------------------- writeTreesN
\* The blob slice of writeTreesN(num): whether it is taken, its chunk and bounds.
writeTreesNBlobs(gg, num) ==
    LET n0 == intMin((num + 1) * Radix, gg.blobsCnt) % gitChunkSize
    IN [on |-> num * Radix < gg.blobsCnt,
        k  |-> (num * Radix) \div gitChunkSize,
        lo |-> (num * Radix) % gitChunkSize,
        hi |-> IF n0 = 0 THEN gitChunkSize ELSE n0]

\* The tree slice of writeTreesN(num).
writeTreesNTrees(gg, num) ==
    LET n0 == intMin((num + 1) * Radix, gg.treesCnt)
    IN [on |-> num * Radix < gg.treesCnt,
        k  |-> (num * Radix) \div gitChunkSize,
        lo |-> (num * Radix) % gitChunkSize,
        hi |-> IF n0 = 0 THEN gitChunkSize ELSE n0]

\* A chunk index or a slice bound of writeTreesN(num) is out of range: the Go
\* runtime panics.
writeTreesNPanics(gg, num) ==
    LET b == writeTreesNBlobs(gg, num)
        t == writeTreesNTrees(gg, num)
    IN \/ b.on /\ (b.k >= Len(gg.blobs) \/ ~SliceOK(b.lo, b.hi))
       \/ t.on /\ (t.k >= Len(gg.trees) \/ ~SliceOK(t.lo, t.hi))

\* The payload of the tree writeTreesN(num) writes.
writeTreesN(gg, num) ==
    LET b == writeTreesNBlobs(gg, num)
        t == writeTreesNTrees(gg, num)
    IN writeTree(IF b.on THEN Slice(gg.blobs[b.k + 1], b.lo, b.hi) ELSE <<>>,
                 IF t.on THEN Slice(gg.trees[t.k + 1], t.lo, t.hi) ELSE <<>>)

\* The payload of the first tree writeTrees0 writes: g.blobs[0][:n].
writeTrees0(gg) ==
    writeTree(Slice(gg.blobs[1], 0, intMin(gg.blobsCnt, Radix)), <<>>)

\* A root made of every slot in use of the first chunk.
writeRootUnbounded(gg) ==
    writeTree(<<>>, Slice(gg.trees[1], 0, intMin(gg.treesCnt, gitChunkSize)))

\* The payload of the root: writeTree(nil, g.trees[0][:n]).
writeRoot(gg) ==
    writeTree(<<>>, Slice(gg.trees[1], 0, intMin(gg.treesCnt, Radix)))

\* addWriteTree that stores the hash in the first blob slot as well.
addWriteTreeStoreTwice(gg, id, h) ==
    [gg EXCEPT !.blobs = Put(Put(Grow(gg.blobs, id), id, h), 0, h),
               !.trees = Grow(gg.trees, id \div Radix),
               !.blobsCnt = intMax(gg.blobsCnt, id + 1),
               !.treesCnt = intMax(gg.treesCnt, (id \div Radix) + 1)]

\* addWriteTree up to g.blobs[id/gitChunkSize][id%gitChunkSize] = h.
addWriteTreeStore(gg, id, h) ==
    [gg EXCEPT !.blobs = Put(Grow(gg.blobs, id), id, h),
               !.trees = Grow(gg.trees, id \div Radix),
               !.blobsCnt = intMax(gg.blobsCnt, id + 1),
               !.treesCnt = intMax(gg.treesCnt, (id \div Radix) + 1)]

\* ------------------------------------------------------------- hashObject
NoCall == [typ |-> "none", b |-> <<>>, h |-> emptySHA1, step |-> "none",
           err |-> FALSE, k |-> "none", created |-> FALSE, found |-> FALSE]

\* A failed write that goes on to the rename.
AfterWriteErrorRename == "rename"

\* The step hashObject takes when a write or a close has failed (err != nil
\* at line 218): os.Remove(tmpFileName), then return.
AfterWriteError == "remove"

\* hashObject(typ, b) is entered by the caller whose continuation is k: the
\* header is formatted and the hash computed (tab is SHA-1 so far).
CallHashObject(tab, typ, b, k) ==
    /\ sha1' = Hashed(tab, Encoded(typ, b))
    /\ ho' = [typ |-> typ, b |-> b, h |-> SHA1sum(tab, Encoded(typ, b)),
              step |-> "stat", err |-> FALSE, k |-> k,
              created |-> FALSE, found |-> FALSE]
    /\ hoLog' = Append(hoLog, <<typ, k>>)
    /\ pc' = "ho"

HoFrame == <<aside, caller, notes, i, parent, g, awt, sha1, ref, index,
             calls, result, commitLog, flushLog, hoLog, cfgLog>>

\* A stat that never finds the file.
StatNeverFinds(h) == FALSE

\* What os.Stat(fileName) answers when it does not fail otherwise.
StatFinds(h) == h \in DOMAIN objs

\* if _, err := os.Stat(fileName); err == nil || err != nil && !os.IsNotExist(err)
HoStat ==
    /\ pc = "ho" /\ ho.step = "stat"
    /\ \E fault \in BOOLEAN :
         ho' = IF fault THEN [ho EXCEPT !.step = "ret", !.err = TRUE]
               ELSE IF StatFinds(ho.h)
                    THEN [ho EXCEPT !.step = "ret", !.found = TRUE]
                    ELSE [ho EXCEPT !.step = "mkdir"]
    /\ UNCHANGED <<HoFrame, pc, objs, tmps, dirs, fsLog>>

\* os.MkdirAll(dirName, 0777)
HoMkdirAll ==
    /\ pc = "ho" /\ ho.step = "mkdir"
    /\ \E fault \in BOOLEAN :
         IF fault
         THEN ho' = [ho EXCEPT !.step = "ret", !.err = TRUE] /\ dirs' = dirs
         ELSE ho' = [ho EXCEPT !.step = "create"]
              /\ dirs' = dirs \cup {HexDir(ho.h)}
    /\ UNCHANGED <<HoFrame, pc, objs, tmps, fsLog>>

\* f, err := os.Create(tmpFileName): a new or truncated file, open.
HoCreate ==
    /\ pc = "ho" /\ ho.step = "create"
    /\ \E fault \in BOOLEAN :
         IF fault
         THEN /\ ho' = [ho EXCEPT !.step = "ret", !.err = TRUE]
              /\ UNCHANGED <<tmps, fsLog>>
         ELSE /\ ho' = [ho EXCEPT !.step = "hdr", !.created = TRUE]
              /\ tmps' = With(tmps, ho.h, NewFile)
              /\ fsLog' = Append(fsLog, <<"create", ho.h>>)
    /\ UNCHANGED <<HoFrame, pc, objs, dirs>>

\* One of w.Write(buf.Bytes()), w.Write(b), w.Close(), f.Close(): on success
\* the file gains what the step writes and hashObject goes on to `next`.
HoWriteStep(step, next, done) ==
    /\ pc = "ho" /\ ho.step = step
    /\ \E fault \in BOOLEAN :
         IF fault
         THEN ho' = [ho EXCEPT !.step = AfterWriteError, !.err = TRUE]
              /\ tmps' = tmps
         ELSE ho' = [ho EXCEPT !.step = next]
              /\ tmps' = [tmps EXCEPT ![ho.h] = done]
    /\ UNCHANGED <<HoFrame, pc, objs, dirs, fsLog>>

HoWriteHeader == HoWriteStep("hdr", "body", [tmps[ho.h] EXCEPT !.hdr = TRUE])
HoWriteBody == HoWriteStep("body", "zclose", [tmps[ho.h] EXCEPT !.body = TRUE])
HoCloseZlib == HoWriteStep("zclose", "fclose", [tmps[ho.h] EXCEPT !.trailer = TRUE])
HoCloseFile == HoWriteStep("fclose", "rename", [tmps[ho.h] EXCEPT !.open = FALSE])

\* os.Remove(tmpFileName) // forget error we already have one
HoRemove ==
    /\ pc = "ho" /\ ho.step = "remove"
    /\ tmps' = Without(tmps, ho.h)
    /\ ho' = [ho EXCEPT !.step = "ret"]
    /\ UNCHANGED <<HoFrame, pc, objs, dirs, fsLog>>

\* err = os.Rename(tmpFileName, fileName); return h, err
HoRename ==
    /\ pc = "ho" /\ ho.step = "rename"
    /\ \E fault \in BOOLEAN :
         IF fault
         THEN /\ ho' = [ho EXCEPT !.step = "ret", !.err = TRUE]
              /\ UNCHANGED <<objs, tmps, fsLog>>
         ELSE /\ ho' = [ho EXCEPT !.step = "ret"]
              /\ objs' = With(objs, ho.h, tmps[ho.h])
              /\ tmps' = Without(tmps, ho.h)
              /\ fsLog' = Append(fsLog, <<"rename", ho.h>>)
    /\ UNCHANGED <<HoFrame, pc, dirs>>

HashObjectStep ==
    \/ HoStat \/ HoMkdirAll \/ HoCreate \/ HoWriteHeader \/ HoWriteBody
    \/ HoCloseZlib \/ HoCloseFile \/ HoRemove \/ HoRename

\* hashObject has returned to the continuation k.
Returned(k) == pc = "ho" /\ ho.step = "ret" /\ ho.k = k

\* ------------------------------------------------------------- writeCommit
\* g.author once resolved: "name <email>".
Identity == "A U Thor <author@example.com>"

\* A parent line that is written even for the zero hash.
CommitParentsAlways(par) == <<par>>

\* writeCommit that writes no parent line.
CommitParentsNone(par) == <<>>

\* if parent != g.emptySHA1 { fmt.Fprintf(&g.buf, "parent %x\n", parent) }
CommitParents(par) == IF par # emptySHA1 THEN <<par>> ELSE <<>>

\* A commit whose tree line names the parent commit.
CommitBodyTreeOfParent(author, id, tree, par, authorDate) ==
    [tree |-> par,
     parents |-> CommitParents(par),
     author |-> <<author, authorDate>>,
     committer |-> <<author, 0>>,
     msg |-> id]

\* The payload of the commit object: the tree line, the parent line unless
\* parent is the zero hash, the author and committer lines, and the id as the
\* message.  The whole import happens at one wall-clock instant.
CommitBody(author, id, tree, par, authorDate) ==
    [tree |-> tree,
     parents |-> CommitParents(par),
     author |-> <<author, authorDate>>,
     committer |-> <<author, 0>>,
     msg |-> id]

\* A writeCommit that takes g.author for empty every time.
AuthorCachedNever(gg) == FALSE

\* if g.author == "" { ... }: the identity is asked for only while none is kept.
AuthorCached(gg) == gg.author # ""

\* What the queries git config --get user.name and --get user.email can
\* come to: both answer, or the first or the second fails.
ConfigOutcomes ==
    { << <<"user.name", TRUE>>, <<"user.email", TRUE>> >>,
      << <<"user.name", FALSE>> >>,
      << <<"user.name", TRUE>>, <<"user.email", FALSE>> >> }

\* writeCommit(id, tree, parent, authorDate) up to its call of hashObject.
\* While g.author is empty user.name and user.email are asked for; when a
\* query fails writeCommit returns SHA1{} and the error, which updateDB
\* assigns to parent before it returns.
writeCommit(gg, id, tree, par, authorDate) ==
    IF AuthorCached(gg)
    THEN /\ g' = gg /\ parent' = parent /\ cfgLog' = cfgLog
         /\ CallHashObject(sha1, "commit",
                           CommitBody(gg.author, id, tree, par, authorDate),
                           "commit")
    ELSE \E q \in ConfigOutcomes :
           /\ cfgLog' = cfgLog \o q
           /\ IF q[Len(q)][2]
              THEN /\ g' = [gg EXCEPT !.author = Identity]
                   /\ parent' = parent
                   /\ CallHashObject(sha1, "commit",
                                     CommitBody(Identity, id, tree, par, authorDate),
                                     "commit")
              ELSE /\ g' = gg /\ sha1' = sha1 /\ ho' = NoCall /\ hoLog' = hoLog
                   /\ parent' = emptySHA1 /\ pc' = "fail"

\* ------------------------------------------------------------- addWriteTree
\* The call h, err := g.writeTreesN(num) of addWriteTree's loop.
CallWriteTreesN(gg, tab, id, num) ==
    /\ awt' = [id |-> id, i |-> num]
    /\ IF writeTreesNPanics(gg, num)
       THEN sha1' = tab /\ ho' = NoCall /\ hoLog' = hoLog /\ pc' = "panic"
       ELSE CallHashObject(tab, "tree", writeTreesN(gg, num), "treesN")

\* addWriteTree(id, h) from its first line to its first call of hashObject.
addWriteTree(gg, tab, id, h) ==
    LET g1 == addWriteTreeStore(gg, id, h)
    IN /\ g' = g1
       /\ calls' = Append(calls, <<id, h>>)
       /\ IF id < Radix
          THEN /\ awt' = [id |-> id, i |-> 0]
               /\ CallHashObject(tab, "tree", writeTrees0(g1), "trees0")
          ELSE CallWriteTreesN(g1, tab, id, id \div Radix)

\* addWriteTree returns (h, err).  Called directly, the caller has the result;
\* in updateDB an error ends the import and a root goes to writeCommit.
addWriteTreeReturn(gg, h, err) ==
    /\ result' = [root |-> h, err |-> err]
    /\ IF caller = "api" \/ err
       THEN /\ g' = gg /\ sha1' = sha1 /\ ho' = NoCall /\ parent' = parent
            /\ hoLog' = hoLog /\ cfgLog' = cfgLog
            /\ pc' = IF err THEN "fail" ELSE "idle"
       ELSE writeCommit(gg, notes[i + 1].ID, h, parent, notes[i + 1].Modified)

\* writeTrees0 after its first writeTree: g.trees[0][0] = h, then the root.
ContTrees0 ==
    /\ Returned("trees0")
    /\ IF ho.err
       THEN addWriteTreeReturn(g, emptySHA1, TRUE)
       ELSE LET g1 == [g EXCEPT !.trees = Put(g.trees, 0, ho.h)]
            IN /\ g' = g1 /\ parent' = parent /\ result' = result
               /\ cfgLog' = cfgLog
               /\ CallHashObject(sha1, "tree", writeRoot(g1), "root")
    /\ UNCHANGED <<aside, caller, notes, i, awt, objs, tmps, dirs, ref, index,
                   calls, commitLog, flushLog, fsLog>>

\* The body of addWriteTree's loop after writeTreesN(i): the hash is stored at
\* g.trees[i], i /= 100, and the loop goes on or the root is written.
ContTreesN ==
    /\ Returned("treesN")
    /\ IF ho.err
       THEN addWriteTreeReturn(g, ho.h, TRUE) /\ awt' = awt
       ELSE IF ~InRange(g.trees, awt.i)
       THEN /\ pc' = "panic" /\ ho' = NoCall
            /\ UNCHANGED <<g, awt, sha1, parent, result, hoLog, cfgLog>>
       ELSE LET g1 == [g EXCEPT !.trees = Put(g.trees, awt.i, ho.h)]
                up == awt.i \div Radix
            IN /\ g' = g1 /\ parent' = parent /\ result' = result
               /\ cfgLog' = cfgLog
               /\ IF up > 0
                  THEN CallWriteTreesN(g1, sha1, awt.id, up)
                  ELSE /\ awt' = [awt EXCEPT !.i = up]
                       /\ CallHashObject(sha1, "tree", writeRoot(g1), "root")
    /\ UNCHANGED <<aside, caller, notes, i, objs, tmps, dirs, ref, index,
                   calls, commitLog, flushLog, fsLog>>

\* return g.writeTree(nil, g.trees[0][:n]) of addWriteTree and writeTrees0.
ContRoot ==
    /\ Returned("root")
    /\ addWriteTreeReturn(g, ho.h, ho.err)
    /\ UNCHANGED <<aside, caller, notes, i, awt, objs, tmps, dirs, ref, index,
                   calls, commitLog, flushLog, fsLog>>

\* ------------------------------------------------------------- getHEAD
\* The refs of a repository: whether the branch HEAD names exists, and
\* whether another branch does.
Repos == [headRef : BOOLEAN, others : BOOLEAN]
\* What git init --bare makes from an empty template.
FreshRepo == [headRef |-> FALSE, others |-> FALSE]
\* The branch HEAD names.
HeadRefName == "refs/heads/master"

NoHead == [called |-> FALSE, ref |-> "", first |-> FALSE, err |-> FALSE]

\* A git branch whose output is taken for empty.
BranchesListedNever(r) == FALSE

\* len(b) > 0 for the output b of git branch: some branch is listed.
BranchesListed(r) == r.headRef \/ r.others

\* getHEAD() with g.ref = gref in the repository r; each of the three git
\* commands may fail to run (fSym, fShow, fBranch).  The result is the
\* triple returned and the g.ref the call leaves.
getHEAD(gref, r, fSym, fShow, fBranch) ==
    IF gref # ""
    THEN [ref |-> gref, first |-> FALSE, err |-> FALSE, gref |-> gref]
    ELSE IF fSym
    THEN [ref |-> "", first |-> FALSE, err |-> TRUE, gref |-> gref]
    ELSE IF r.headRef /\ ~fShow
    THEN [ref |-> HeadRefName, first |-> FALSE, err |-> FALSE, gref |-> HeadRefName]
    ELSE IF fBranch \/ BranchesListed(r)
    THEN [ref |-> "", first |-> FALSE, err |-> TRUE, gref |-> gref]
    ELSE [ref |-> HeadRefName, first |-> TRUE, err |-> FALSE, gref |-> gref]

\* ref, first, err := g.getHEAD() in updateDB, and the two tests after it:
\* an error, or a repository that is not fresh, ends the import.
UpdateDBGetHEAD ==
    /\ pc = "getHEAD"
    /\ \E fSym, fShow, fBranch \in BOOLEAN :
         LET r == getHEAD(g.ref, repo, fSym, fShow, fBranch)
         IN /\ head' = [called |-> TRUE, ref |-> r.ref, first |-> r.first,
                        err |-> r.err]
            /\ g' = [g EXCEPT !.ref = r.gref]
            /\ pc' = IF r.err \/ ~r.first THEN "fail" ELSE "loop"
    /\ UNCHANGED <<probe, repo, webVars, auxVars, caller, notes, i, parent, awt, ho,
                   diskVars, histVars>>

\* ------------------------------------------------------------- updateDB
\* A flush test that forgets the last note.
FlushDueNoFinal(j, n) == j % BatchSize = BatchSize - 1

\* A flush after every note.
FlushDueAlways(j, n) == TRUE

\* if i%5000 == 4999 || i == len(notes)-1
FlushDue(j, n) == j % BatchSize = BatchSize - 1 \/ j = n - 1

\* The payload of the blob of a note: its tags, its creation time and its text.
BlobBody(text) == [text |-> text]

\* addToIndex writing a line without the path.
IndexLineBare(path, hash) == [mode |-> "100644", hash |-> hash, path |-> <<>>]

\* g.addToIndex(path, hash): one line "100644 <hash>\t<path>\n".
IndexLine(path, hash) == [mode |-> "100644", hash |-> hash, path |-> path]

\* The head of the loop over notes: the blob of notes[i] goes to hashObject;
\* past the last note updateDB returns tx.Commit().
UpdateDBLoop ==
    /\ pc = "loop"
    /\ IF i < Len(notes)
       THEN CallHashObject(sha1, "blob", BlobBody(notes[i + 1].Text), "blob")
       ELSE /\ \E fault \in BOOLEAN : pc' = IF fault THEN "fail" ELSE "done"
            /\ UNCHANGED <<ho, sha1, hoLog>>
    /\ UNCHANGED <<aside, caller, notes, i, parent, g, awt, objs, tmps, dirs, ref,
                   index, calls, result, commitLog, flushLog, fsLog, cfgLog>>

\* After the blob is hashed: the checks of n.ID, addToIndex, and addWriteTree
\* up to its first hashObject.
ContBlob ==
    /\ Returned("blob")
    /\ LET n == notes[i + 1]
       IN IF ho.err \/ n.ID < 0 \/ n.ID > maxInt
          THEN /\ pc' = "fail" /\ ho' = NoCall
               /\ UNCHANGED <<g, awt, sha1, calls, hoLog>>
          ELSE addWriteTree(
                   [g EXCEPT !.indexBuf =
                        Append(g.indexBuf, IndexLine(idToGitName(n.ID), ho.h))],
                   sha1, n.ID, ho.h)
    /\ UNCHANGED <<aside, caller, notes, i, parent, objs, tmps, dirs, ref, index,
                   result, commitLog, flushLog, fsLog, cfgLog>>

\* parent, err = g.writeCommit(...) has returned: the flush test and p.Done().
ContCommit ==
    /\ Returned("commit")
    /\ parent' = ho.h
    /\ ho' = NoCall
    /\ IF ho.err
       THEN pc' = "fail" /\ UNCHANGED <<i, commitLog>>
       ELSE /\ commitLog' = Append(commitLog,
                                   [i |-> i, hash |-> ho.h, root |-> result.root])
            /\ IF FlushDue(i, Len(notes))
               THEN pc' = "ref" /\ i' = i
               ELSE pc' = "loop" /\ i' = i + 1
    /\ UNCHANGED <<aside, caller, notes, g, awt, diskVars, calls, result, flushLog,
                   fsLog, hoLog, cfgLog>>

\* g.updateRef(ref, hex.EncodeToString(parent[:])): git update-ref.
UpdateRef ==
    /\ pc = "ref"
    /\ \E fault \in BOOLEAN :
         IF fault
         THEN pc' = "fail" /\ UNCHANGED <<ref, flushLog>>
         ELSE /\ pc' = "index"
              /\ ref' = parent
              /\ flushLog' = Append(flushLog, <<"ref", i>>)
    /\ UNCHANGED <<aside, caller, notes, i, parent, g, awt, ho, sha1, objs, tmps, dirs,
                   index, calls, result, commitLog, fsLog, hoLog, cfgLog>>

\* g.updateIndex(): git update-index --index-info reads g.indexBuf, which is
\* then reset.
UpdateIndex ==
    /\ pc = "index"
    /\ \E fault \in BOOLEAN :
         IF fault
         THEN pc' = "fail" /\ UNCHANGED <<g, index, flushLog>>
         ELSE /\ pc' = "gc"
              /\ index' = index \o g.indexBuf
              /\ g' = [g EXCEPT !.indexBuf = <<>>]
              /\ flushLog' = Append(flushLog, <<"index", i>>)
    /\ UNCHANGED <<aside, caller, notes, i, parent, awt, ho, sha1, objs, tmps, dirs,
                   ref, calls, result, commitLog, fsLog, hoLog, cfgLog>>

\* g.GC(): git gc, an external command; then p.Done() and the next note.
GC ==
    /\ pc = "gc"
    /\ \E fault \in BOOLEAN :
         IF fault
         THEN pc' = "fail" /\ UNCHANGED <<i, flushLog>>
         ELSE /\ pc' = "loop"
              /\ i' = i + 1
              /\ flushLog' = Append(flushLog, <<"gc", i>>)
    /\ UNCHANGED <<aside, caller, notes, parent, g, awt, ho, diskVars, calls, result,
                   commitLog, fsLog, hoLog, cfgLog>>

\* ------------------------------------------------------------- direct calls
\* The ids a direct caller passes in an arbitrary order.
SampleIds ==
    {0, 1, Radix - 1, Radix, Radix + 1, Radix * Radix - 1, Radix * Radix,
     Radix * gitChunkSize - 1, Radix * gitChunkSize}

\* The calls so far were addWriteTree(0, _), addWriteTree(1, _), ...
Ascending == \A k \in 1..Len(calls) : calls[k][1] = k - 1
Called == {calls[k][1] : k \in 1..Len(calls)}

\* A caller of the GitRepo calls addWriteTree(id, h) with a new id: any of
\* SampleIds, or the next id of the ascending run; h is the hash of a blob
\* that differs from id to id.
ApiAddWriteTree ==
    /\ pc = "idle"
    /\ \E id \in ({x \in SampleIds : Len(calls) < MaxCalls}
                  \cup {x \in {Len(calls)} : Ascending /\ Len(calls) < MaxSeq})
                 \ Called :
         LET blob == Encoded("blob", BlobBody(id))
         IN addWriteTree(g, Hashed(sha1, blob), id, SHA1sum(sha1, blob))
    /\ UNCHANGED <<aside, caller, notes, i, parent, objs, tmps, dirs, ref, index,
                   result, commitLog, flushLog, fsLog, cfgLog>>

\* ------------------------------------------------------------- sessions
\* A time.Time is a number of ticks, a time.Duration a difference of two; the
\* zero Time is 0 and the clock starts after it.
\* The cookie values: those NewSession may draw, and one it never returns.
SessionIds == 1..(MaxSessions + 1)

\* sessionDuration = 3600 // session duration in seconds
sessionDuration == TicksPerHour
\* 24 * time.Hour
Day == 24 * TicksPerHour

\* A place of the map m: a *session or no entry.
NoSession == [present |-> FALSE, expires |-> 0, client |-> 0]
\* NewSessions(): an empty map, next the zero Time.
NewSessions == [m |-> [v \in SessionIds |-> NoSession], next |-> 0]
\* len(s.m)
lenM(ss) == Cardinality({v \in SessionIds : ss.m[v].present})

NoReply ==
    [op |-> "", v |-> 0, at |-> 0, stored |-> FALSE, exp |-> 0, err |-> "",
     extend |-> FALSE, before |-> 0]

\* The session cookie of one id: when setSessionCookie last sent it (sent),
\* when a request with it was last accepted (seen), and whether every request
\* with it so far came at most the session duration after the one before
\* (punctual).  A cookie that was refused or removed is not kept.
NoCookie == [sent |-> 0, seen |-> 0, punctual |-> TRUE]

InitWeb ==
    /\ sessions = NewSessions /\ clock = 1
    /\ issued = {} /\ removed = {} /\ reply = NoReply
    /\ cookies = [v \in SessionIds |-> NoCookie]

\* CheckSession sending the cookie again only after the whole duration.
extendDueAfterD(now, client, d) == now - client > d

\* CheckSession: now.Sub(entry.client) > d/2
extendDue(now, client, d) == now - client > d \div 2

\* NewSession with s.next never lowered.
nextAfterNewKept(ss, t) == ss.next

\* NewSession: if len(s.m) == 0 || t.Before(s.next) { s.next = t }
nextAfterNew(ss, t) == IF lenM(ss) = 0 \/ t < ss.next THEN t ELSE ss.next

\* The smallest element of a set of times.
Earliest(T) == CHOOSE x \in T : \A y \in T : x <= y

\* s.expire() when time.Now() reads now.
expire(ss, now) ==
    IF lenM(ss) = 0 THEN ss
    ELSE IF ss.next < now
    THEN LET del  == {v \in SessionIds : ss.m[v].present /\ ss.m[v].expires < now}
             kept == {v \in SessionIds : ss.m[v].present /\ v \notin del}
         IN [m    |-> [v \in SessionIds |->
                          IF v \in del THEN NoSession ELSE ss.m[v]],
             next |-> Earliest({now + Day} \cup {ss.m[v].expires : v \in kept})]
    ELSE ss

\* The rest of the model, which a call on sessions leaves alone.
coreVars == <<caller, notes, i, parent, pc, g, awt, ho, diskVars, histVars,
              probe, repo, head>>
gitSide == <<coreVars, auxVars>>

\* s.NewSession(d).  rand.Read may fail; the value it gives is one not given
\* before.  The clock is read at line 47 and again in expire.  The caller
\* sends the cookie (setSessionCookie).
NewSession(d) ==
    /\ pc = "serve"
    /\ \/ /\ reply' = [NoReply EXCEPT !.op = "NewSession", !.at = clock,
                                      !.err = "rand"]
          /\ UNCHANGED <<sessions, clock, issued, removed, cookies>>
       \/ \E v \in 1..MaxSessions, adv \in 0..1 :
            /\ v \notin issued /\ \A w \in 1..(v - 1) : w \in issued
            /\ clock + adv <= MaxTime
            /\ LET now == clock
                   t   == now + d
                   s1  == [m    |-> [sessions.m EXCEPT ![v] =
                                        [present |-> TRUE, expires |-> t,
                                         client |-> now]],
                           next |-> nextAfterNew(sessions, t)]
               IN sessions' = expire(s1, clock + adv)
            /\ clock' = clock + adv
            /\ issued' = issued \cup {v}
            /\ reply' = [NoReply EXCEPT !.op = "NewSession", !.v = v,
                                        !.at = clock]
            /\ cookies' = [cookies EXCEPT ![v] =
                              [sent |-> clock, seen |-> clock,
                               punctual |-> TRUE]]
            /\ UNCHANGED removed
    /\ UNCHANGED gitSide

\* s.CheckSession(v, d).  The clock is read in expire (when the map is not
\* empty) and again at line 71.  The caller sends the cookie again when the
\* first result is true.
CheckSession(v, d) ==
    /\ pc = "serve"
    /\ LET s1 == expire(sessions, clock)
           r0 == [NoReply EXCEPT !.op = "CheckSession", !.v = v, !.at = clock,
                                 !.stored = sessions.m[v].present,
                                 !.exp = sessions.m[v].expires,
                                 !.before = cookies[v].sent]
           c0 == [cookies[v] EXCEPT
                     !.punctual = @ /\ clock - cookies[v].seen <= d]
       IN IF ~s1.m[v].present
          THEN /\ sessions' = s1
               /\ clock' = clock
               /\ reply' = [r0 EXCEPT !.err = "ErrAuth"]
               /\ cookies' = IF v \in issued
                             THEN [cookies EXCEPT ![v] =
                                      [NoCookie EXCEPT !.punctual = c0.punctual]]
                             ELSE cookies
          ELSE \E adv \in 0..1 :
                 /\ clock + adv <= MaxTime
                 /\ clock' = clock + adv
                 /\ LET now == clock + adv
                        ext == extendDue(now, s1.m[v].client, d)
                    IN /\ sessions' =
                            [s1 EXCEPT !.m[v].expires = now + d,
                                       !.m[v].client =
                                           IF ext THEN now ELSE @]
                       /\ reply' = [r0 EXCEPT !.extend = ext]
                       /\ cookies' = [cookies EXCEPT ![v] =
                            [c0 EXCEPT !.seen = now,
                                       !.sent = IF ext THEN now ELSE @]]
    /\ UNCHANGED <<issued, removed, gitSide>>

\* s.Remove(v)
Remove(v) ==
    /\ pc = "serve"
    /\ sessions' = [sessions EXCEPT !.m[v] = NoSession]
    /\ removed' = IF sessions.m[v].present THEN removed \cup {v} ELSE removed
    /\ reply' = [NoReply EXCEPT !.op = "Remove", !.v = v, !.at = clock]
    /\ cookies' = IF sessions.m[v].present
                  THEN [cookies EXCEPT ![v] = NoCookie] ELSE cookies
    /\ UNCHANGED <<clock, issued, gitSide>>

\* serveLogin: s.s.NewSession(sessionDuration * time.Second)
ServeLogin == NewSession(sessionDuration)

\* authenticate: s.s.CheckSession(cookie.Value, sessionDuration*time.Second)
Authenticate == \E v \in SessionIds : CheckSession(v, sessionDuration)

\* serveLogout: s.s.Remove(cookie.Value)
ServeLogout == \E v \in SessionIds : Remove(v)

\* Time passes between two requests.
Tick ==
    /\ pc = "serve" /\ clock < MaxTime
    /\ clock' = clock + 1
    /\ UNCHANGED <<sessions, issued, removed, reply, cookies, gitSide>>

\* ------------------------------------------------------------- export
\* The runes of the texts: a star, a space (unicode.IsSpace), a newline.
SepChars == {"*", " ", "\n"}
IsSpace(r) == r \in {" ", "\n"}

\* The state of the loop of notesSep: the map m (its keys), stars, spaces.
SepStart == [m |-> {}, stars |-> 0, spaces |-> FALSE]

\* notesSep: stars = 0; spaces := false at the start of the loop body.
sepNextNote(st) == [st EXCEPT !.stars = 0, !.spaces = FALSE]

\* notesSep: the switch on one rune r.
sepRune(st, r) ==
    IF r = "\n"
    THEN [m      |-> IF st.stars >= 3 THEN st.m \cup {st.stars} ELSE st.m,
          stars  |-> 0,
          spaces |-> FALSE]
    ELSE IF st.stars < 0 THEN st
    ELSE IF IsSpace(r)
    THEN IF st.stars >= 3 THEN [st EXCEPT !.spaces = TRUE]
         ELSE [st EXCEPT !.stars = -1]
    ELSE IF r = "*" /\ ~st.spaces THEN [st EXCEPT !.stars = @ + 1]
    ELSE [st EXCEPT !.stars = -1]

RECURSIVE sepText(_, _, _)
\* for _, r := range n.Text, from the k-th rune on.
sepText(st, text, k) ==
    IF k > Len(text) THEN st ELSE sepText(sepRune(st, text[k]), text, k + 1)

RECURSIVE sepNotes(_, _, _)
\* for _, n := range notes, from the k-th note on.
sepNotes(st, texts, k) ==
    IF k > Len(texts) THEN st
    ELSE sepNotes(sepText(sepNextNote(st), texts[k], 1), texts, k + 1)

\* bytes.Repeat([]byte{'*'}, n)
Stars(n) == [j \in 1..n |-> "*"]

\* notesSep(notes), of the texts of the notes.
notesSep(texts) ==
    LET st == sepNotes(SepStart, texts, 1)
        m  == IF st.stars >= 3 THEN st.m \cup {st.stars} ELSE st.m
        k  == CHOOSE j \in 3..(MaxTextLen + 3) :
                  j \notin m /\ \A h \in 3..(j - 1) : h \in m
    IN Append(Stars(k), "\n")

\* Note.WriteTo: four lines of header (tags, created, modified, id), an empty
\* line, the text and a newline.  A header line is one rune here.
noteHeader == <<"t", "\n", "c", "\n", "m", "\n", "i", "\n", "\n">>

RECURSIVE exportFrom(_, _, _)
\* export: for each note the separator, then n.WriteTo(w).
exportFrom(sep, texts, k) ==
    IF k > Len(texts) THEN <<>>
    ELSE sep \o noteHeader \o texts[k] \o <<"\n">> \o exportFrom(sep, texts, k + 1)

RECURSIVE scanLines(_, _, _)
\* bufio.Scanner with ScanLines over the bytes b from place k, the line begun
\* being cur: the lines without their newlines, the last one also when no
\* newline ends it and it is not empty.
scanLines(b, k, cur) ==
    IF k > Len(b) THEN (IF cur = <<>> THEN <<>> ELSE <<cur>>)
    ELSE IF b[k] = "\n" THEN <<cur>> \o scanLines(b, k + 1, <<>>)
    ELSE scanLines(b, k + 1, Append(cur, b[k]))

RECURSIVE joinLines(_, _)
\* strings.Join(lines, "\n") from the k-th line on
joinLines(lines, k) ==
    IF k > Len(lines) THEN <<>>
    ELSE IF k = Len(lines) THEN lines[k]
    ELSE lines[k] \o <<"\n">> \o joinLines(lines, k + 1)

RECURSIVE parseNotes(_, _, _)
\* The loop of parse from line k on: the header, then the lines of the text
\* up to a line equal to sep or to the end.  The result is the texts of the
\* notes, or <<"error">> in place of the rest.
parseNotes(lines, sep, k) ==
    IF k + 3 > Len(lines) THEN <<"error">>
    ELSE IF k + 4 > Len(lines) THEN <<"error">>
    ELSE IF lines[k + 4] # <<>> THEN <<"error">>
    ELSE LET ends == {j \in (k + 5)..Len(lines) : lines[j] = sep}
             e    == IF ends = {} THEN Len(lines) + 1
                     ELSE CHOOSE j \in ends : \A h \in ends : j <= h
             text == joinLines(SubSeq(lines, k + 5, e - 1), 1)
         IN IF ends = {} THEN <<text>>
            ELSE <<text>> \o parseNotes(lines, sep, e + 1)

\* parse(r): the first line is the separator, which starts with "***".
parse(b) ==
    LET lines == scanLines(b, 1, <<>>)
    IN IF lines = <<>> THEN <<"error">>
       ELSE IF Len(lines[1]) < 3 \/ SubSeq(lines[1], 1, 3) # Stars(3)
       THEN <<"error">>
       ELSE parseNotes(lines, lines[1], 2)

\* The texts of at most n runes.
TextsUpTo(n) == UNION {[1..k -> SepChars] : k \in 0..n}

RECURSIVE TextLists(_, _)
\* The lists of at most n texts with at most r runes in all.
TextLists(n, r) ==
    IF n = 0 THEN {<<>>}
    ELSE {<<>>} \cup
         UNION { {<<a>> \o rest : rest \in TextLists(n - 1, r - Len(a))}
                 : a \in TextsUpTo(r) }

NoExport == [texts |-> <<>>, sep |-> <<>>, file |-> <<>>, parsed |-> <<>>,
             step |-> "idle"]
IdleExport == xp = NoExport

\* export(w, notes) and then parse of what was written.
Export ==
    /\ pc = "export" /\ xp.step = "start"
    /\ LET sep == notesSep(xp.texts)
       IN xp' = [xp EXCEPT !.sep = sep,
                           !.file = exportFrom(sep, xp.texts, 1),
                           !.step = "exported"]
    /\ UNCHANGED <<coreVars, webVars, cw, pw, db>>

Parse ==
    /\ pc = "export" /\ xp.step = "exported"
    /\ xp' = [xp EXCEPT !.parsed = parse(xp.file), !.step = "parsed"]
    /\ UNCHANGED <<coreVars, webVars, cw, pw, db>>

\* ------------------------------------------------------------- two writers
\* Two callers of hashObject with the same type and payload on one repository
\* directory, each at its own place in the code.  No call of the operating
\* system fails by itself: an error is one the other writer has caused.  A
\* file is an inode, which a path names and an open descriptor writes to.
Writers == {1, 2}
EmptyFile == [hdr |-> FALSE, body |-> FALSE, trailer |-> FALSE]
WholeFile == [hdr |-> TRUE, body |-> TRUE, trailer |-> TRUE]
ObjectTypes == {"blob", "tree", "commit"}

\* The frame of hashObject(typ, b) before os.Stat.
WriterStart(typ, b) ==
    [typ |-> typ, b |-> b, step |-> "stat", fd |-> 0, err |-> FALSE,
     h |-> SHA1sum(<<>>, Encoded(typ, b))]

NoWriters ==
    [w |-> [x \in Writers |->
               [typ |-> "none", b |-> <<>>, step |-> "none", fd |-> 0,
                err |-> FALSE, h |-> 0]],
     ino |-> <<>>, tmp |-> 0, fin |-> 0, dir |-> FALSE]
IdleWriters == cw = NoWriters

CwFrame == <<coreVars, webVars, xp, pw, db>>

\* os.Stat(fileName): the file under the final path is there or not.
CwStat(x) ==
    /\ pc = "writers" /\ cw.w[x].step = "stat"
    /\ cw' = [cw EXCEPT !.w[x].step = IF cw.fin # 0 THEN "ret" ELSE "mkdir"]
    /\ UNCHANGED CwFrame

\* os.MkdirAll(dirName, 0777)
CwMkdirAll(x) ==
    /\ pc = "writers" /\ cw.w[x].step = "mkdir"
    /\ cw' = [cw EXCEPT !.w[x].step = "create", !.dir = TRUE]
    /\ UNCHANGED CwFrame

\* os.Create(tmpFileName): the file of that name is truncated if there is one
\* and made if not; the descriptor writes from the start.
CwCreate(x) ==
    /\ pc = "writers" /\ cw.w[x].step = "create"
    /\ cw' = IF cw.tmp # 0
             THEN [cw EXCEPT !.w[x].step = "hdr", !.w[x].fd = cw.tmp,
                             !.ino[cw.tmp] = EmptyFile]
             ELSE [cw EXCEPT !.w[x].step = "hdr", !.w[x].fd = Len(cw.ino) + 1,
                             !.ino = Append(cw.ino, EmptyFile),
                             !.tmp = Len(cw.ino) + 1]
    /\ UNCHANGED CwFrame

\* w.Write(buf.Bytes()), w.Write(b), w.Close(): the bytes go to the file the
\* descriptor is open on, under whatever path that file has by now.
CwWrite(x) ==
    /\ pc = "writers" /\ cw.w[x].step \in {"hdr", "body", "zclose"}
    /\ LET f == cw.w[x].fd
       IN cw' = CASE cw.w[x].step = "hdr" ->
                       [cw EXCEPT !.w[x].step = "body", !.ino[f].hdr = TRUE]
                  [] cw.w[x].step = "body" ->
                       [cw EXCEPT !.w[x].step = "zclose", !.ino[f].body = TRUE]
                  [] OTHER ->
                       [cw EXCEPT !.w[x].step = "fclose", !.ino[f].trailer = TRUE]
    /\ UNCHANGED CwFrame

\* f.Close()
CwClose(x) ==
    /\ pc = "writers" /\ cw.w[x].step = "fclose"
    /\ cw' = [cw EXCEPT !.w[x].step = "rename", !.w[x].fd = 0]
    /\ UNCHANGED CwFrame

\* err = os.Rename(tmpFileName, fileName): fails when no file has the
\* temporary name any more.
CwRename(x) ==
    /\ pc = "writers" /\ cw.w[x].step = "rename"
    /\ cw' = IF cw.tmp = 0
             THEN [cw EXCEPT !.w[x].step = "ret", !.w[x].err = TRUE]
             ELSE [cw EXCEPT !.w[x].step = "ret", !.fin = cw.tmp, !.tmp = 0]
    /\ UNCHANGED CwFrame

\* ------------------------------------------------------------- parallel insertion
\* Two workers call addWriteTree on one GitRepo, which has one g.buf; the
\* statements of the two interleave.  hashObject does not fail here.
Workers == {1, 2}

\* A worker before its call addWriteTree(id, h).
WorkerStart(id, h) ==
    [id |-> id, h |-> h, step |-> "store", node |-> "none", num |-> 0,
     root |-> emptySHA1]

NoWorkers ==
    [w |-> [x \in Workers |-> [WorkerStart(0, emptySHA1) EXCEPT !.step = "none"]],
     buf |-> <<>>, written |-> {}]
IdleWorkers == pw = NoWorkers

PwFrame == <<caller, notes, i, parent, pc, awt, ho, objs, tmps, dirs, ref, index,
             result, commitLog, flushLog, fsLog, hoLog, cfgLog, probe, repo,
             head, webVars, xp, cw, db>>

\* addWriteTree from its first line to g.blobs[...][...] = h; then the first
\* writeTree of the call: of writeTrees0, or of writeTreesN(id / 100).
PwStore(x) ==
    /\ pc = "workers" /\ pw.w[x].step = "store"
    /\ g' = addWriteTreeStore(g, pw.w[x].id, pw.w[x].h)
    /\ calls' = Append(calls, <<pw.w[x].id, pw.w[x].h>>)
    /\ pw' = [pw EXCEPT !.w[x].step = "reset",
                        !.w[x].node = IF pw.w[x].id < Radix THEN "trees0"
                                      ELSE "treesN",
                        !.w[x].num = pw.w[x].id \div Radix]
    /\ UNCHANGED <<PwFrame, sha1>>

\* writeTree: g.buf.Reset()
PwReset(x) ==
    /\ pc = "workers" /\ pw.w[x].step = "reset"
    /\ pw' = [pw EXCEPT !.w[x].step = "fill", !.buf = <<>>]
    /\ UNCHANGED <<PwFrame, g, sha1, calls>>

\* The entries the worker's writeTree has to write.
PwPayload(x) ==
    CASE pw.w[x].node = "trees0" -> writeTrees0(g)
      [] pw.w[x].node = "treesN" -> writeTreesN(g, pw.w[x].num)
      [] OTHER -> writeRoot(g)

\* writeTree: the loop that appends the entries to g.buf.
PwFill(x) ==
    /\ pc = "workers" /\ pw.w[x].step = "fill"
    /\ pw' = [pw EXCEPT !.w[x].step = "hash", !.buf = pw.buf \o PwPayload(x)]
    /\ UNCHANGED <<PwFrame, g, sha1, calls>>

\* writeTree: return g.hashObject(objectTree, g.buf.Bytes()), and what the
\* caller does with the hash: g.trees[0][0] = h, or g.trees[i][...] = h and
\* i /= 100, or the return of the root.
PwHash(x) ==
    /\ pc = "workers" /\ pw.w[x].step = "hash"
    /\ LET e  == Encoded("tree", pw.buf)
           h  == SHA1sum(sha1, e)
           w  == pw.w[x]
           up == w.num \div Radix
           wr == pw.written \cup {[by |-> x, node |-> w.node, num |-> w.num, h |-> h]}
       IN /\ sha1' = Hashed(sha1, e)
          /\ CASE w.node = "trees0" ->
                    /\ g' = [g EXCEPT !.trees = Put(g.trees, 0, h)]
                    /\ pw' = [pw EXCEPT !.w[x].step = "reset",
                                        !.w[x].node = "root", !.written = wr]
               [] w.node = "treesN" ->
                    /\ g' = [g EXCEPT !.trees = Put(g.trees, w.num, h)]
                    /\ pw' = [pw EXCEPT !.w[x].step = "reset",
                                        !.w[x].node = IF up > 0 THEN "treesN"
                                                      ELSE "root",
                                        !.w[x].num = up, !.written = wr]
               [] OTHER ->
                    /\ g' = g
                    /\ pw' = [pw EXCEPT !.w[x].step = "done", !.w[x].root = h,
                                        !.written = wr]
    /\ UNCHANGED <<PwFrame, calls>>

\* ------------------------------------------------------------- the database
\* DB.updateNote and DB.addNote (db.go) on a database with one stored note,
\* called by two request handlers.  The handlers of net/http run as
\* goroutines and OpenDB sets no limit on the connections of the pool, so
\* the steps of two calls interleave.  SQLite lets one transaction write at
\* a time: a statement that writes takes the lock of the database file or
\* fails ("database is locked"), and the lock is held until the transaction
\* commits or rolls back.
Callers == {1, 2}
EditTexts == {"a", "b"}
TagOrder == <<"/p", "t">>
TopicNames == {"/p"}
TagSets == {{"t"}, {"/p", "t"}}

\* sort.Strings on the names of a set of tags (byte order, '/' first)
sortStrings(S) == SelectSeq(TagOrder, LAMBDA t : t \in S)

RECURSIVE joinStrings(_, _)
\* strings.Join(a, sep)
joinStrings(a, sep) ==
    IF Len(a) = 0 THEN <<>>
    ELSE IF Len(a) = 1 THEN <<a[1]>>
    ELSE <<a[1], sep>> \o joinStrings(Tail(a), sep)

\* a row of notes with its rows of tags, and the Note that DB.Note makes of it
FirstNote == [Text |-> "o", tags |-> {"t"}]
EmptyNote == [Text |-> "", tags |-> {}]
Topics(n) == sortStrings(n.tags \cap TopicNames)
Tags(n) == sortStrings(n.tags \ TopicNames)

\* Note.sha1sum; SHA-1 is taken to be free of collisions, the checksum is
\* the byte string it is computed of
sha1sum(n) == [tags |-> joinStrings(Topics(n) \o Tags(n), " "), text |-> n.Text]

\* the checksums a client can hold: of a revision it has been shown
NoSum == [tags |-> <<>>, text |-> ""]
Sha1Sums == {sha1sum(FirstNote), sha1sum([FirstNote EXCEPT !.tags = {"/p", "t"}]),
             sha1sum([FirstNote EXCEPT !.Text = "a"])}

\* errors
NoErr == [kind |-> "nil", SHA1Sum |-> NoSum]
EditConflictError(dbSHA1Sum) == [kind |-> "EditConflictError", SHA1Sum |-> dbSHA1Sum]
SqlErr == [kind |-> "sql", SHA1Sum |-> NoSum]
GitErr == [kind |-> "git", SHA1Sum |-> NoSum]

\* "if dbSHA1Sum != sha1sum" of DB.updateNote
editConflictNever(dbSHA1Sum, sum) == FALSE
editConflict(dbSHA1Sum, sum) == dbSHA1Sum # sum

\* the file that DB.updateNote and DB.addNote hand to GitRepo.Add (the
\* creation time, which no call changes, is left out)
gitFile(text, tags) == [tags |-> joinStrings(sortStrings(tags), " "), text |-> text]

\* git update-index --add --cacheinfo
cacheinfo(idx, name, blob) ==
    {e \in idx : e.name # name} \cup {[name |-> name, blob |-> blob]}

NoDbCall == [op |-> "none", noteID |-> 0, text |-> "", tags |-> {},
           sha1sum |-> NoSum, step |-> "idle", note |-> EmptyNote,
           err |-> NoErr, pend |-> FALSE, added |-> FALSE, commit |-> 0,
           done |-> FALSE]
NoDB == [git |-> FALSE, rows |-> <<>>, lock |-> 0, index |-> {},
         branch |-> <<>>, call |-> [x \in Callers |-> NoDbCall]]
IdleDB == db = NoDB

DbFrame == <<coreVars, webVars, xp, cw, pw>>

\* The deferred tx.Rollback() of a call that returns e: what the
\* transaction wrote is dropped and its lock released.
rollback(x, e) ==
    [db EXCEPT !.lock = IF @ = x THEN 0 ELSE @,
               !.call[x].step = "ret", !.call[x].err = e,
               !.call[x].pend = FALSE]

\* A request arrives: db.db.Begin() (BEGIN takes no lock).
DbBegin(x) ==
    /\ pc = "db" /\ db.call[x].step = "idle"
    /\ \E op \in {"updateNote", "addNote"}, id \in {1, 2}, text \in EditTexts,
          tags \in TagSets, sum \in Sha1Sums :
          /\ op = "addNote" => id = 1 /\ sum = sha1sum(FirstNote)
          /\ db' = [db EXCEPT !.call[x] =
                       [NoDbCall EXCEPT !.op = op,
                                      !.noteID = IF op = "addNote" THEN 0 ELSE id,
                                      !.text = text, !.tags = tags,
                                      !.sha1sum = IF op = "addNote" THEN NoSum ELSE sum,
                                      !.step = IF op = "addNote" THEN "exec" ELSE "note"]]
    /\ UNCHANGED DbFrame

\* updateNote step 0: db.Note(noteID), on the pool and not on tx, and the
\* comparison of the checksums.
DbNote(x) ==
    LET c == db.call[x] IN
    /\ pc = "db" /\ c.step = "note"
    /\ IF c.noteID \notin 1..Len(db.rows)
       THEN db' = rollback(x, SqlErr)
       ELSE LET note == db.rows[c.noteID]
                dbSHA1Sum == sha1sum(note) IN
            IF editConflict(dbSHA1Sum, c.sha1sum)
            THEN db' = [rollback(x, EditConflictError(dbSHA1Sum)) EXCEPT
                           !.call[x].note = note]
            ELSE db' = [db EXCEPT !.call[x].note = note, !.call[x].step = "exec"]
    /\ UNCHANGED DbFrame

\* The statements on tx: UPDATE or INSERT of notes and ftsnotes, the tags.
\* The first takes the lock of the database; any of them can fail.
DbExec(x) ==
    LET c == db.call[x] IN
    /\ pc = "db" /\ c.step = "exec"
    /\ \/ db' = rollback(x, SqlErr)
       \/ /\ db.lock \in {0, x}
          /\ db' = [db EXCEPT !.lock = x, !.call[x].pend = TRUE,
                              !.call[x].noteID = IF c.op = "addNote"
                                                 THEN Len(db.rows) + 1 ELSE @,
                              !.call[x].step = IF db.git THEN "add" ELSE "commit"]
    /\ UNCHANGED DbFrame

\* GitRepo.Add: getHEAD, git hash-object -w, git update-index
DbGitAdd(x) ==
    LET c == db.call[x] IN
    /\ pc = "db" /\ c.step = "add"
    /\ \/ db' = rollback(x, GitErr)
       \/ db' = [db EXCEPT !.index = cacheinfo(@, idToGitName(c.noteID),
                                               gitFile(c.text, c.tags)),
                           !.call[x].added = TRUE,
                           !.call[x].step = "gitcommit"]
    /\ UNCHANGED DbFrame

\* GitRepo.Commit: getHEAD, git write-tree, git commit-tree, git update-ref
DbGitCommit(x) ==
    LET c == db.call[x] IN
    /\ pc = "db" /\ c.step = "gitcommit"
    /\ \/ db' = rollback(x, GitErr)
       \/ db' = [db EXCEPT !.branch = Append(@, [msg |-> c.noteID, tree |-> db.index]),
                           !.call[x].commit = Len(db.branch) + 1,
                           !.call[x].step = "commit"]
    /\ UNCHANGED DbFrame

\* tx.Commit()
DbCommit(x) ==
    LET c == db.call[x]
        row == [Text |-> c.text, tags |-> c.tags] IN
    /\ pc = "db" /\ c.step = "commit"
    /\ \/ db' = rollback(x, SqlErr)
       \/ db' = [db EXCEPT !.rows = IF c.op = "addNote" THEN Append(@, row)
                                    ELSE [@ EXCEPT ![c.noteID] = row],
                           !.lock = 0, !.call[x].pend = FALSE,
                           !.call[x].done = TRUE, !.call[x].step = "ret"]
    /\ UNCHANGED DbFrame

InitAux == IdleExport /\ IdleWriters /\ IdleWorkers /\ IdleDB

\* ------------------------------------------------------------- specifications
\* The ids and texts of the notes updateDB imports.
NoteIds == {-1, 0, 1, Radix, Radix * Radix, Radix * gitChunkSize, maxInt + 1}
Texts == {"a", "b"}

RECURSIVE AscendingSeq(_)
\* ORDER BY rowid
AscendingSeq(S) ==
    IF S = {} THEN <<>>
    ELSE LET m == CHOOSE x \in S : \A y \in S : x <= y
         IN <<m>> \o AscendingSeq(S \ {m})

NoteLists ==
    UNION { { [k \in 1..Cardinality(S) |->
                 [ID |-> AscendingSeq(S)[k], Text |-> t[k], Modified |-> 0]]
              : t \in [1..Cardinality(S) -> Texts] }
            : S \in {T \in SUBSET NoteIds : Cardinality(T) <= MaxNotes} }

\* NewGitRepo(dir) in a repository git init --bare has just made.
NewGitRepo ==
    [blobs |-> <<>>, trees |-> <<>>, blobsCnt |-> 0, treesCnt |-> 0,
     author |-> "", indexBuf |-> <<>>, ref |-> ""]

InitGit ==
    /\ i = 0 /\ parent = emptySHA1
    /\ g = NewGitRepo /\ awt = [id |-> 0, i |-> 0] /\ ho = NoDbCall
    /\ sha1 = <<>> /\ objs = <<>> /\ tmps = <<>> /\ dirs = {}
    /\ ref = emptySHA1 /\ index = <<>>
    /\ calls = <<>> /\ result = [root |-> emptySHA1, err |-> FALSE]
    /\ commitLog = <<>> /\ flushLog = <<>> /\ fsLog = <<>>
    /\ hoLog = <<>> /\ cfgLog = <<>>

InitCommon ==
    /\ InitGit /\ probe = [id |-> 0, name |-> <<>>] /\ head = NoHead
    /\ InitWeb

\* updateDB on a database of notes, from g := NewGitRepo(filename + ".git").
Init ==
    /\ caller = "updateDB" /\ notes \in NoteLists /\ pc = "getHEAD"
    /\ repo \in Repos /\ InitCommon /\ InitAux

Next ==
    \/ UpdateDBGetHEAD \/ UpdateDBLoop \/ ContBlob \/ HashObjectStep
    \/ ContTrees0 \/ ContTreesN \/ ContRoot \/ ContCommit
    \/ UpdateRef \/ UpdateIndex \/ GC

Spec == Init /\ [][Next]_vars

\* A caller of addWriteTree, as a test of the GitRepo would be.
InitTree ==
    /\ caller = "api" /\ notes = <<>> /\ pc = "idle"
    /\ repo = FreshRepo /\ InitCommon /\ InitAux

NextTree ==
    \/ ApiAddWriteTree \/ HashObjectStep
    \/ ContTrees0 \/ ContTreesN \/ ContRoot

SpecTree == InitTree /\ [][NextTree]_vars

\* ------------------------------------------------------------- idToGitName
\* idToGitName(id) as the program computes it, in base ten, for one id.
InitName ==
    /\ caller = "none" /\ notes = <<>> /\ pc = "name" /\ InitGit
    /\ probe \in {[id |-> x, name |-> <<>>] : x \in 0..MaxId}
    /\ repo = FreshRepo /\ head = NoHead /\ InitWeb /\ InitAux

ApplyIdToGitName ==
    /\ pc = "name" /\ probe.name = <<>>
    /\ probe' = [probe EXCEPT !.name = gitName(DecimalBase, probe.id)]
    /\ UNCHANGED <<caller, notes, i, parent, pc, g, awt, ho, diskVars, histVars,
                   repo, head, webVars, auxVars>>

SpecName == InitName /\ [][ApplyIdToGitName]_vars

\* ------------------------------------------------------------- the server
\* The requests of the server that reach its sessions, in any order.
InitSessions ==
    /\ caller = "server" /\ notes = <<>> /\ pc = "serve"
    /\ repo = FreshRepo /\ InitCommon /\ InitAux

NextSessions == ServeLogin \/ Authenticate \/ ServeLogout \/ Tick

SpecSessions == InitSessions /\ [][NextSessions]_vars

\* ------------------------------------------------------------- export and parse
\* An export of a list of notes, read back by parse.
InitExport ==
    /\ caller = "export" /\ notes = <<>> /\ pc = "export"
    /\ repo = FreshRepo /\ InitCommon
    /\ IdleWriters /\ IdleWorkers /\ IdleDB
    /\ xp \in {[NoExport EXCEPT !.texts = l, !.step = "start"] :
                  l \in TextLists(MaxSepNotes, MaxTextLen)}

NextExport == Export \/ Parse

SpecExport == InitExport /\ [][NextExport]_vars

\* ------------------------------------------------------------- concurrent puts
\* Two writers put the same object; it is stored already, or it is not.
InitWriters ==
    /\ caller = "writers" /\ notes = <<>> /\ pc = "writers"
    /\ repo = FreshRepo /\ InitCommon
    /\ IdleExport /\ IdleWorkers /\ IdleDB
    /\ \E typ \in ObjectTypes, b \in Texts, stored \in BOOLEAN :
         cw = [w   |-> [x \in Writers |-> WriterStart(typ, b)],
               ino |-> IF stored THEN <<WholeFile>> ELSE <<>>,
               tmp |-> 0,
               fin |-> IF stored THEN 1 ELSE 0,
               dir |-> stored]

NextWriters ==
    \E x \in Writers :
        \/ CwStat(x) \/ CwMkdirAll(x) \/ CwCreate(x) \/ CwWrite(x)
        \/ CwClose(x) \/ CwRename(x)

SpecWriters == InitWriters /\ [][NextWriters]_vars

\* ------------------------------------------------------------- partitioned workers
\* The ids of the two workers lie below different entries of the root.
\* The slot of g.trees[0] that the root entry above id is written from.
TopSlot(id) ==
    IF id < Radix THEN 0
    ELSE IF id < Radix * Radix THEN id \div Radix
    ELSE id \div (Radix * Radix)

WorkerIdSample == {0, 1, Radix, 2 * Radix + 1, Radix * Radix}
WorkerIds ==
    {p \in WorkerIdSample \X WorkerIdSample : TopSlot(p[1]) # TopSlot(p[2])}

InitWorkers ==
    /\ caller = "workers" /\ notes = <<>> /\ pc = "workers"
    /\ repo = FreshRepo /\ head = NoHead /\ probe = [id |-> 0, name |-> <<>>]
    /\ InitWeb /\ IdleExport /\ IdleWriters /\ IdleDB
    /\ i = 0 /\ parent = emptySHA1
    /\ g = NewGitRepo /\ awt = [id |-> 0, i |-> 0] /\ ho = NoCall
    /\ objs = <<>> /\ tmps = <<>> /\ dirs = {}
    /\ ref = emptySHA1 /\ index = <<>>
    /\ calls = <<>> /\ result = [root |-> emptySHA1, err |-> FALSE]
    /\ commitLog = <<>> /\ flushLog = <<>> /\ fsLog = <<>>
    /\ hoLog = <<>> /\ cfgLog = <<>>
    /\ \E ids \in WorkerIds :
         /\ sha1 = <<Encoded("blob", BlobBody(ids[1])),
                     Encoded("blob", BlobBody(ids[2]))>>
         /\ pw = [NoWorkers EXCEPT !.w = [x \in Workers |-> WorkerStart(ids[x], x)]]

NextWorkers ==
    \E x \in Workers : PwStore(x) \/ PwReset(x) \/ PwFill(x) \/ PwHash(x)

SpecWorkers == InitWorkers /\ [][NextWorkers]_vars

\* ------------------------------------------------------------- notes in the database
\* Two requests on a database that holds one note, with or without git.
InitDB ==
    /\ caller = "db" /\ notes = <<>> /\ pc = "db"
    /\ repo = FreshRepo /\ InitCommon
    /\ IdleExport /\ IdleWriters /\ IdleWorkers
    /\ \E useGit \in BOOLEAN :
         LET first == {[name |-> idToGitName(1),
                        blob |-> gitFile(FirstNote.Text, FirstNote.tags)]} IN
         db = [NoDB EXCEPT !.git = useGit, !.rows = <<FirstNote>>,
                           !.index = IF useGit THEN first ELSE {},
                           !.branch = IF useGit
                                      THEN <<[msg |-> 1, tree |-> first]>>
                                      ELSE <<>>]

NextDB ==
    \E x \in Callers :
        \/ DbBegin(x) \/ DbNote(x) \/ DbExec(x)
        \/ DbGitAdd(x) \/ DbGitCommit(x) \/ DbCommit(x)

SpecDB == InitDB /\ [][NextDB]_vars

\* ------------------------------------------------------------- reading back
\* The object a reader finds under the final path of h, if a whole one is there.
Stored(h) == h \in DOMAIN objs /\ Complete(objs[h])

RECURSIVE Leaves(_, _)
RECURSIVE LeavesOf(_, _, _)
\* The blob leaves below the tree h, as <<path, hash>> in the order of a walk.
Leaves(h, prefix) == LeavesOf(sha1[h].b, prefix, 1)
LeavesOf(entries, prefix, k) ==
    IF k > Len(entries) THEN <<>>
    ELSE (IF entries[k].mode = "100644"
            THEN << <<prefix \o entries[k].name, entries[k].hash>> >>
            ELSE Leaves(entries[k].hash, prefix \o entries[k].name \o <<"/">>))
         \o LeavesOf(entries, prefix, k + 1)

RECURSIVE Readable(_)
\* The tree h and every tree below it is stored as a tree object.
Readable(h) ==
    /\ h \in 1..Len(sha1) /\ sha1[h].typ = "tree" /\ Stored(h)
    /\ \A k \in 1..Len(sha1[h].b) :
         sha1[h].b[k].mode = "40000" => Readable(sha1[h].b[k].hash)

\* ------------------------------------------------------------- the reference
\* Building the whole tree from (path, blob hash) pairs as git write-tree does
\* from an index: one tree per directory, entries in git's order (bytewise by
\* name, the name of a tree taken with a '/' at its end).
CharRank(c) ==
    CASE c = "." -> 1 [] c = "/" -> 2 [] c = "d" -> 13 [] c = "m" -> 14
      [] OTHER -> 2 + (CHOOSE k \in 1..10 : DigitChars[k] = c)

RECURSIVE LexLess(_, _)
LexLess(a, b) ==
    IF a = <<>> THEN b # <<>>
    ELSE IF b = <<>> THEN FALSE
    ELSE IF a[1] = b[1] THEN LexLess(Tail(a), Tail(b))
    ELSE CharRank(a[1]) < CharRank(b[1])

SortKey(e) == IF e.mode = "40000" THEN e.name \o <<"/">> ELSE e.name

RECURSIVE SortEntries(_)
SortEntries(S) ==
    IF S = {} THEN <<>>
    ELSE LET m == CHOOSE x \in S :
                     \A y \in S \ {x} : LexLess(SortKey(x), SortKey(y))
         IN <<m>> \o SortEntries(S \ {m})

HasDir(p) == \E k \in 1..Len(p) : p[k] = "/"
FirstSlash(p) == CHOOSE k \in 1..Len(p) : p[k] = "/" /\ \A j \in 1..(k - 1) : p[j] # "/"
DirOf(p) == SubSeq(p, 1, FirstSlash(p) - 1)
RestOf(p) == SubSeq(p, FirstSlash(p) + 1, Len(p))

RECURSIVE RefHash(_)
\* The hash of the tree a from-scratch build writes for the pairs P.
RefHash(P) ==
    LET files == {[mode |-> "100644", name |-> e[1], hash |-> e[2]] :
                     e \in {x \in P : ~HasDir(x[1])}}
        names == {DirOf(e[1]) : e \in {x \in P : HasDir(x[1])}}
        subs  == {[mode |-> "40000", name |-> d,
                   hash |-> RefHash({<<RestOf(e[1]), e[2]>> :
                               e \in {x \in P : HasDir(x[1]) /\ DirOf(x[1]) = d}})] :
                     d \in names}
    IN SHA1sum(sha1, Encoded("tree", SortEntries(files \cup subs)))

\* The (path, blob hash) pairs of the calls made so far.
CalledPairs == {<<idToGitName(calls[k][1]), calls[k][2]>> : k \in 1..Len(calls)}

\* ------------------------------------------------------------- claims, addWriteTree
\* The walk of the root the last call returned lists one blob leaf per call
\* made, at the path idToGitName(id) and with the hash passed for it, and no
\* other leaf.
RootListsCalls ==
    LET L == Leaves(result.root, <<>>)
    IN /\ Readable(result.root)
       /\ Len(L) = Len(calls)
       /\ \A k \in 1..Len(calls) :
            Cardinality({j \in 1..Len(L) :
                L[j] = <<idToGitName(calls[k][1]), calls[k][2]>>}) = 1

\* The last addWriteTree call is over: it returned a root, or it panicked.
\* (A call that returned an error of the file system is not counted.)
CallOver == Len(calls) > 0 /\ pc \in {"idle", "panic"}

\* C1: after any sequence of addWriteTree calls with distinct ids, in any
\* order, the last call has returned a root, and the walk of that root lists
\* one blob leaf per inserted id, at the path idToGitName(id) and with the
\* hash passed for it, and no other leaf.
C1_SparseTree == CallOver => (pc = "idle" /\ RootListsCalls)

\* C2: for every N, after the ids 0..N-1 are inserted one at a time, the last
\* call has returned a root hash, and it is the hash of the root a build from
\* scratch writes for the N (idToGitName(id), blob hash) pairs.
C2_IncrementalEqualsBatch ==
    (CallOver /\ Ascending) =>
        (pc = "idle" /\ result.root = RefHash(CalledPairs))

\* C3: on an ascending run id = 0, 1, 2, ... every addWriteTree call completes:
\* no chunk index and no slice bound is out of range.
C3_NoOutOfRange == Ascending => pc # "panic"

\* ------------------------------------------------------------- claims, updateDB
RECURSIVE ParentWalk(_, _)
\* The hashes met following parent lines from the commit h through the stored
\* commit objects, for at most n more steps; -1 where the walk cannot go on.
ParentWalk(h, n) ==
    IF ~(h \in 1..Len(sha1) /\ sha1[h].typ = "commit" /\ Stored(h)) THEN <<-1>>
    ELSE <<h>> \o (IF sha1[h].b.parents = <<>> THEN <<>>
                   ELSE IF n = 0 THEN <<-1>>
                   ELSE ParentWalk(sha1[h].b.parents[1], n - 1))

\* C4: after updateDB has written M >= 1 commits, following parent pointers
\* from the last one visits the M commits in reverse order of writing and
\* ends; the first commit has no parent line and every other commit names the
\* hash the writeCommit call before it returned.
C4_ChainLinkage ==
    LET M == Len(commitLog)
    IN M >= 1 =>
        /\ ParentWalk(commitLog[M].hash, M) =
               [k \in 1..M |-> commitLog[M + 1 - k].hash]
        /\ sha1[commitLog[1].hash].b.parents = <<>>
        /\ \A k \in 2..M :
               sha1[commitLog[k].hash].b.parents = <<commitLog[k - 1].hash>>

\* Three commits have been written.
C4_Witness == Len(commitLog) >= 3

\* The hash of the blob updateDB makes of a note.
NoteBlob(n) == Lookup(sha1, Encoded("blob", BlobBody(n.Text)))

\* C5: the commit written for note i names as its tree the root addWriteTree
\* returned for note i, and that tree holds the notes 0..i and no other.
C5_CommitTree ==
    \A k \in 1..Len(commitLog) :
        LET c == commitLog[k]
            L == Leaves(c.root, <<>>)
        IN /\ sha1[c.hash].b.tree = c.root
           /\ Readable(c.root)
           /\ Len(L) = c.i + 1
           /\ {L[j] : j \in 1..Len(L)} =
                  {<<idToGitName(notes[j].ID), NoteBlob(notes[j])>> : j \in 1..(c.i + 1)}

\* The commit of the third note is written and a fourth note is to come.
C5_Witness == Len(commitLog) >= 3 /\ Len(notes) > Len(commitLog)

\* How often the event e is in the log of the file system.
Count(log, e) == Cardinality({k \in 1..Len(log) : log[k] = e})

C7_AtomicVisibility ==
    [][\A h \in DOMAIN objs' :
          /\ Complete(objs'[h])
          /\ h \notin DOMAIN objs =>
                /\ h \in DOMAIN tmps /\ Complete(tmps[h])
                /\ objs'[h] = tmps[h] /\ h \notin DOMAIN tmps']_vars

\* A call has failed after it created its temporary file, beside stored objects.
C7_Witness ==
    /\ pc = "ho" /\ ho.step = "ret" /\ ho.err /\ ho.created
    /\ DOMAIN objs # {}

\* C8: when hashObject returns after it created its temporary file, with an
\* error or without, the temporary file is no longer there.
C8_TmpCleanup ==
    (pc = "ho" /\ ho.step = "ret" /\ ho.created) => ho.h \notin DOMAIN tmps

RECURSIVE FlushesUpTo(_)
\* The flush steps of the notes at positions below j: the three steps, in
\* order, after each position p with p mod BatchSize = BatchSize - 1 and after
\* the last.
FlushesUpTo(j) ==
    IF j = 0 THEN <<>>
    ELSE FlushesUpTo(j - 1)
         \o (IF (j - 1) % BatchSize = BatchSize - 1 \/ j - 1 = Len(notes) - 1
             THEN << <<"ref", j - 1>>, <<"index", j - 1>>, <<"gc", j - 1>> >>
             ELSE <<>>)

IsPrefix(a, b) == Len(a) <= Len(b) /\ a = SubSeq(b, 1, Len(a))

\* C9: updateDB flushes (the ref, then the index buffer, then git gc) after
\* the notes at the positions i with i mod BatchSize = BatchSize - 1 and after
\* the last note, and at no other time; when it returns without error for a
\* list of notes that is not empty, the ref is the last commit and the index
\* buffer is empty.
C9_BatchFlush ==
    /\ pc \in {"loop", "ho", "ref", "done"} => flushLog = FlushesUpTo(i)
    /\ pc = "index" => flushLog = FlushesUpTo(i) \o << <<"ref", i>> >>
    /\ pc = "gc" =>
           flushLog = FlushesUpTo(i) \o << <<"ref", i>>, <<"index", i>> >>
    /\ IsPrefix(flushLog, FlushesUpTo(Len(notes)))
    /\ (pc = "done" /\ Len(notes) > 0) =>
           /\ i = Len(notes)
           /\ Len(commitLog) = Len(notes)
           /\ ref = commitLog[Len(notes)].hash
           /\ g.indexBuf = <<>>

\* updateDB has returned after a flush inside the list and the last flush.
C9_Witness ==
    /\ pc = "done" /\ Len(notes) > BatchSize
    /\ Count(flushLog, <<"gc", BatchSize - 1>>) = 1
    /\ Count(flushLog, <<"gc", Len(notes) - 1>>) = 1

\* ------------------------------------------------------------- claims, names
\* The number of directory components before the file name.
Depth(p) == Cardinality({k \in 1..Len(p) : p[k] = "/"})

\* C10 as stated: the ids 0 and 99 map to depth-1 paths and the ids 100 and
\* 9999 to depth-2 paths.
C10_AsStated ==
    probe.name # <<>> =>
        /\ probe.id \in {0, 99} => Depth(probe.name) = 1
        /\ probe.id \in {100, 9999} => Depth(probe.name) = 2

\* C10, amended: every id up to 9999 (0, 99, 100 and 9999 among them) maps to
\* a depth-1 path and the ids from 10000 on to depth-2 paths; ids of one and
\* two digits get the directory "00", and ids of one and three digits a
\* leading zero.
C10_PathDepth ==
    probe.name # <<>> =>
        LET d(k) == DigitChars[((probe.id \div k) % 10) + 1]
        IN /\ probe.id <= 9999 => Depth(probe.name) = 1
           /\ (10000 <= probe.id /\ probe.id <= 999999) => Depth(probe.name) = 2
           /\ probe.id < 100 =>
                probe.name = <<"0", "0", "/", d(10), d(1), ".", "m", "d">>
           /\ (100 <= probe.id /\ probe.id < 1000) =>
                probe.name = <<"0", d(100), "/", d(10), d(1), ".", "m", "d">>

\* The name of id 100 has been computed.
C10_Witness == probe.id = 100 /\ probe.name # <<>>

\* ------------------------------------------------------------- claims, trees
\* The tree objects writeTree has passed to hashObject.
TreeObjects == {h \in 1..Len(sha1) : sha1[h].typ = "tree"}

\* The number of entries of the tree h with the given mode.
EntriesOfMode(h, mode) ==
    Cardinality({k \in 1..Len(sha1[h].b) : sha1[h].b[k].mode = mode})

\* C11 as stated: every tree object written has at most 100 (Radix) child
\* entries.
C11_AsStated == \A h \in TreeObjects : Len(sha1[h].b) <= Radix

\* C11, amended: every tree object written has at most 100 (Radix) blob
\* entries and at most 100 (Radix) subtree entries, so at most 200 entries,
\* however many notes were inserted; the root has subtree entries only.
C11_FanOut ==
    /\ \A h \in TreeObjects :
         /\ EntriesOfMode(h, "100644") <= Radix
         /\ EntriesOfMode(h, "40000") <= Radix
         /\ Len(sha1[h].b) <= 2 * Radix
    /\ (pc = "idle" /\ Len(calls) > 0) =>
         /\ result.root \in TreeObjects
         /\ EntriesOfMode(result.root, "100644") = 0

\* A directory with a full set of blobs and a full set of subtrees is stored.
C11_Witness ==
    \E h \in TreeObjects : Stored(h) /\ Len(sha1[h].b) = 2 * Radix

RECURSIVE Ancestors(_)
\* id/100, id/100^2, ... as long as the quotient is not zero.
Ancestors(id) ==
    IF id < Radix THEN {} ELSE {id \div Radix} \cup Ancestors(id \div Radix)

\* The subtree slots on the ancestor chain of id: slot 0 when id < 100.
Chain(id) == IF id < Radix THEN {0} ELSE Ancestors(id)

\* The entries of the tree object h, as a set.
EntrySet(h) == {sha1[h].b[k] : k \in 1..Len(sha1[h].b)}

\* The blob entries node k must have: one per inserted id of its range.
BlobsOfNode(k) ==
    {[mode |-> "100644", name |-> BlobEntryName(calls[c][1] % Radix),
      hash |-> calls[c][2]] :
        c \in {x \in 1..Len(calls) : calls[x][1] \div Radix = k}}

\* The names of the subtree entries node k >= 1 has: one per slot of its
\* range that is on the ancestor chain of an inserted id.
SubtreeNamesOfNode(k) ==
    {TreeEntryName(m % Radix) :
        m \in {x \in (Radix * k)..(Radix * k + Radix - 1) :
                 k >= 1 /\ \E c \in 1..Len(calls) : x \in Ancestors(calls[c][1])}}

\* The tree stored at slot k is a tree object without zero hashes and
\* without an entry twice, and its blob entries are those of the inserted
\* ids of the node's range.
NodeHoldsItsBlobs(k) ==
    LET h == At(g.trees, k)
    IN /\ InRange(g.trees, k) /\ h \in TreeObjects /\ Stored(h)
       /\ \A e \in EntrySet(h) : e.hash # emptySHA1
       /\ Cardinality(EntrySet(h)) = Len(sha1[h].b)
       /\ {e \in EntrySet(h) : e.mode = "100644"} = BlobsOfNode(k)

\* C12 as stated: after every completed addWriteTree call and for every
\* inserted id, trees[id/100] is the hash of a tree object whose entries are
\* exactly the blobs of the inserted ids of its range.
C12_AsStated ==
    (pc = "idle" /\ Len(calls) > 0) =>
        \A c \in 1..Len(calls) :
            LET k == calls[c][1] \div Radix
            IN NodeHoldsItsBlobs(k) /\ EntrySet(At(g.trees, k)) = BlobsOfNode(k)

\* C12, amended: after every completed addWriteTree call and for every
\* inserted id, trees[id/100] is the hash of a tree object whose blob entries
\* are exactly the blobs of the inserted ids of its range and whose other
\* entries are the subtrees of the slots 100*(id/100) .. 100*(id/100)+99 that
\* lie above an inserted id; no entry carries the zero hash.
C12_TreeForest ==
    (pc = "idle" /\ Len(calls) > 0) =>
        \A c \in 1..Len(calls) :
            LET k == calls[c][1] \div Radix
                h == At(g.trees, k)
            IN /\ NodeHoldsItsBlobs(k)
               /\ {e.name : e \in {x \in EntrySet(h) : x.mode = "40000"}} =
                      SubtreeNamesOfNode(k)
               /\ \A e \in EntrySet(h) :
                      e.mode = "40000" =>
                          \E m \in (Radix * k)..(Radix * k + Radix - 1) :
                              /\ e.name = TreeEntryName(m % Radix)
                              /\ e.hash = At(g.trees, m)

\* A call has returned and the node of an inserted id holds a blob and a
\* subtree.
C12_Witness ==
    /\ pc = "idle"
    /\ \E c \in 1..Len(calls) :
         LET h == At(g.trees, calls[c][1] \div Radix)
         IN /\ h \in TreeObjects
            /\ EntriesOfMode(h, "100644") > 0 /\ EntriesOfMode(h, "40000") > 0

\* ------------------------------------------------------------- claims, errors
\* The id cannot be an index of the forest: it is negative or no int.
BadId(id) == id < 0 \/ id > maxInt

\* updateDB is at a note whose id it must reject.
AtBadNote ==
    caller = "updateDB" /\ head.called /\ i < Len(notes) /\ BadId(notes[i + 1].ID)

\* C13: a note whose id is negative or exceeds the int type is rejected
\* before any mutation made for it: from the note's turn on updateDB only
\* comes to its error return, the object store holds no blob but those of the
\* notes before it, and the index buffer and the forest are as those notes
\* left them.
C13_RejectedBeforeMutation ==
    AtBadNote =>
        /\ pc \in {"loop", "ho", "fail"}
        /\ \A h \in DOMAIN objs :
             sha1[h].typ = "blob" => h \in {NoteBlob(notes[j]) : j \in 1..i}
        /\ Len(index) + Len(g.indexBuf) = i
        /\ Len(calls) = i

\* A query of git config has failed.
IdentityMissing == cfgLog # <<>> /\ ~cfgLog[Len(cfgLog)][2]

\* C14: when user.name or user.email cannot be resolved updateDB reports the
\* error, and no object has been written to the object store by then.
C14_IdentityBeforeObjects ==
    IdentityMissing => (pc = "fail" /\ DOMAIN objs = {})

\* C15: getHEAD answers first = true only when the branch HEAD names does not
\* exist and no branch exists at all, and answers an error when that branch
\* is missing but some branch exists; when the new repository is not in the
\* first = true state updateDB returns an error before it hashes or writes
\* any object.
C15_FreshRepository ==
    /\ ~head.called => (pc = "getHEAD" /\ hoLog = <<>>)
    /\ head.called =>
         /\ head.first => (~head.err /\ ~repo.headRef /\ ~repo.others)
         /\ (~repo.headRef /\ repo.others) => head.err
         /\ ~(head.first /\ ~head.err) =>
                /\ pc = "fail" /\ hoLog = <<>>
                /\ DOMAIN objs = {} /\ DOMAIN tmps = {}

\* getHEAD has found the branch of HEAD missing beside another branch.
C15_Witness == head.called /\ head.err /\ ~repo.headRef /\ repo.others

\* The commit objects writeCommit has passed to hashObject.
CommitObjects == {h \in 1..Len(sha1) : sha1[h].typ = "commit"}

\* C16: the author identity is resolved once: with an identity kept no
\* query is made again, at most one answered pair of queries is ever made,
\* and every commit has the one identity on its author and committer lines;
\* a failed query keeps no identity and no commit object is made after it.
C16_IdentityOnce ==
    [][/\ g.author # "" => (cfgLog' = cfgLog /\ g'.author = g.author)
       /\ Cardinality({k \in 1..Len(cfgLog') : cfgLog'[k] = <<"user.email", TRUE>>}) <= 1
       /\ \A h \in 1..Len(sha1') :
            sha1'[h].typ = "commit" =>
                /\ sha1'[h].b.author[1] = g'.author
                /\ sha1'[h].b.committer[1] = g'.author
                /\ g'.author # ""
       /\ (cfgLog' # <<>> /\ ~cfgLog'[Len(cfgLog')][2]) =>
            /\ g'.author = "" /\ pc' = "fail"
            /\ \A k \in 1..Len(hoLog') : hoLog'[k][1] # "commit"]_vars

\* A second commit was written with the identity the first one resolved.
C16_Witness == Len(commitLog) >= 2 /\ Len(cfgLog) = 2

\* The commits of flush points in the narrow sense: positions i with
\* i mod 5000 = 4999.
BatchEndCommits ==
    {commitLog[k].hash :
        k \in {x \in 1..Len(commitLog) : commitLog[x].i % BatchSize = BatchSize - 1}}

\* The commit of the last note.
FinalCommits ==
    {commitLog[k].hash :
        k \in {x \in 1..Len(commitLog) : commitLog[x].i = Len(notes) - 1}}

\* C17 as stated: after an error return the ref is unset or the commit of a
\* note position i with i mod 5000 = 4999.
C17_AsStated == pc = "fail" => ref \in {emptySHA1} \cup BatchEndCommits

\* C17, amended: an error ends the import at once (a failed hashObject is
\* followed by the error return, and nothing is done after it), the objects
\* written stay as they are, and the ref is unset or the commit of a flush
\* point: a position i with i mod 5000 = 4999, or the last note.
C17_ErrorPropagation ==
    [][/\ pc # "fail"
       /\ (pc = "ho" /\ ho.step = "ret" /\ ho.err) => pc' = "fail"
       /\ pc' = "fail" =>
            /\ \A h \in DOMAIN objs : h \in DOMAIN objs' /\ objs'[h] = objs[h]
            /\ i' = i /\ commitLog' = commitLog
            /\ ref' \in {emptySHA1} \cup BatchEndCommits' \cup FinalCommits']_vars

\* An error return in a batch after the first: the ref is the commit of the
\* flush before, behind the last commit written.
C17_Witness ==
    /\ pc = "fail" /\ ref \in BatchEndCommits
    /\ ref # commitLog[Len(commitLog)].hash

\* ------------------------------------------------------------- claims, frame
\* Slot j of a chunked array, the zero hash where the array has not grown.
SlotOf(arr, j) == IF InRange(arr, j) THEN At(arr, j) ELSE emptySHA1
Slots(arr) == 0..(Len(arr) * gitChunkSize - 1)

\* C18: addWriteTree(id, h) changes only blob slot id and the subtree slots
\* on the ancestor chain of id (slot 0 when id < 100); every other slot keeps
\* its hash.  And a first id of 100..199 inserted after ids below 100 gives
\* the root a second entry and leaves its first entry as it was.
C18_Frame ==
    [][/\ \A j \in Slots(g'.blobs) :
            SlotOf(g'.blobs, j) # SlotOf(g.blobs, j) => j = awt'.id
       /\ \A j \in Slots(g'.trees) :
            SlotOf(g'.trees, j) # SlotOf(g.trees, j) => j \in Chain(awt'.id)
       /\ (/\ Returned("root") /\ pc' = "idle" /\ Len(calls) >= 2
           /\ calls[Len(calls)][1] \in Radix..(2 * Radix - 1)
           /\ \A c \in 1..(Len(calls) - 1) : calls[c][1] < Radix) =>
              /\ Len(sha1[result.root].b) = 1
              /\ Len(sha1[result'.root].b) = 2
              /\ sha1[result'.root].b[1] = sha1[result.root].b[1]]_vars

\* The second top-level directory was added after two notes of the first.
C18_Witness ==
    /\ pc = "idle" /\ Len(calls) = 3
    /\ calls[1][1] < Radix /\ calls[2][1] < Radix
    /\ calls[3][1] \in Radix..(2 * Radix - 1)

\* The place of the last "root" entry of the log before position n, or 0.
LastRootBefore(n) ==
    LET R == {k \in 1..(n - 1) : hoLog[k][2] = "root"}
    IN IF R = {} THEN 0 ELSE CHOOSE k \in R : \A m \in R : m <= k

\* The number of trees the last addWriteTree call has passed to hashObject.
TreesBuilt ==
    LET n == Len(hoLog)
    IN IF pc = "idle" THEN n - LastRootBefore(n) ELSE n - LastRootBefore(n + 1)

\* C19: each addWriteTree(id, h) call builds one tree per ancestor level of
\* id and one for the root: 2 for id < 10,000, 3 for id < 1,000,000, however
\* many notes were inserted before.
C19_LogarithmicWork ==
    CallOver =>
        LET id == calls[Len(calls)][1]
        IN /\ TreesBuilt = Cardinality(Chain(id)) + 1
           /\ id < Radix * Radix => TreesBuilt = 2
           /\ (Radix * Radix <= id /\ id < Radix * Radix * Radix) => TreesBuilt = 3

\* ------------------------------------------------------------- claims, sessions
\* C20: CheckSession(v, d) returns ErrAuth for a session id that was never
\* issued, that Remove has deleted, or whose expiry time is strictly
\* before the time of the call; and s.next is never later than the expiry
\* time of a stored session.
C20_SessionExpiry ==
    /\ ( /\ reply.op = "CheckSession"
          /\ \/ reply.v \notin issued
             \/ reply.v \in removed
             \/ (reply.stored /\ reply.exp < reply.at) )
       => reply.err = "ErrAuth"
    /\ \A v \in SessionIds :
          sessions.m[v].present => sessions.next <= sessions.m[v].expires

\* An expired session was purged and refused while another one stays.
C20_Witness ==
    /\ reply.op = "CheckSession" /\ reply.err = "ErrAuth"
    /\ reply.v \in issued \ removed
    /\ reply.stored /\ reply.exp < reply.at
    /\ lenM(sessions) > 0

\* The cookie's max age: s.setSessionCookie(w, sid, 2*sessionDuration).
cookieMaxAge == 2 * sessionDuration

\* C21: an accepted CheckSession(v, d) sets the expiry time to now + d; it
\* returns true exactly when more than d/2 has passed since the cookie was
\* last sent, and that time becomes the new send time; for a client whose
\* requests are at most d apart the session is never refused and the cookie
\* is shown before its max age of 2d has run out.
C21_SlidingExtension ==
    (reply.op = "CheckSession" /\ reply.v \in issued \ removed) =>
        LET c == cookies[reply.v]
            e == sessions.m[reply.v]
        IN /\ reply.err = "" =>
                /\ e.present /\ e.expires = c.seen + sessionDuration
                /\ reply.extend <=>
                       c.seen - reply.before > sessionDuration \div 2
                /\ reply.extend => (c.sent = c.seen /\ e.client = c.seen)
                /\ ~reply.extend =>
                       (c.sent = reply.before /\ e.client = reply.before)
           /\ c.punctual =>
                /\ reply.err = ""
                /\ reply.at < reply.before + cookieMaxAge

\* A punctual client was sent its cookie a second time.
C21_Witness ==
    /\ reply.op = "CheckSession" /\ reply.v \in issued \ removed
    /\ reply.err = "" /\ reply.extend
    /\ cookies[reply.v].punctual
    /\ reply.before < reply.exp - sessionDuration

\* ------------------------------------------------------------- claims, export
RECURSIVE textLines(_, _, _)
\* The lines of a text: the runs between its newlines, the last one included.
textLines(text, k, cur) ==
    IF k > Len(text) THEN <<cur>>
    ELSE IF text[k] = "\n" THEN <<cur>> \o textLines(text, k + 1, <<>>)
    ELSE textLines(text, k + 1, Append(cur, text[k]))

\* The line is k stars and then nothing but white space.
StarLine(line, k) ==
    /\ Len(line) >= k
    /\ \A j \in 1..Len(line) : line[j] = IF j <= k THEN "*" ELSE " "

\* Some line of some text of the list is k stars and white space.
Taken(texts, k) ==
    \E n \in 1..Len(texts) :
        LET ls == textLines(texts[n], 1, <<>>)
        IN \E j \in 1..Len(ls) : StarLine(ls[j], k)

\* C22: notesSep returns the shortest separator of k >= 3 stars and a newline
\* such that no line of a note's text, the last line of each note included,
\* is k stars and optional white space; the separator is no line of a note
\* and parse gives back the texts that were exported.
C22_ExportSeparator ==
    /\ xp.step # "start" =>
          LET k == Len(xp.sep) - 1
          IN /\ k >= 3 /\ xp.sep = Append(Stars(k), "\n")
             /\ ~Taken(xp.texts, k)
             /\ \A h \in 3..(k - 1) : Taken(xp.texts, h)
    /\ (xp.step = "parsed" /\ xp.texts # <<>>) => xp.parsed = xp.texts

\* ------------------------------------------------------------- claims, index and ref
\* The (path, blob hash) pairs of the lines the staged index has taken.
IndexPairs == {<<index[k].path, index[k].hash>> : k \in 1..Len(index)}

\* The (path, blob hash) pairs of the blob leaves below the tree h.
LeafPairs(h) == LET L == Leaves(h, <<>>) IN {L[k] : k \in 1..Len(L)}

\* C23: when updateDB has returned without error, the lines handed to the
\* staged index over all flushes are one line '100644 <blob hash> TAB
\* <idToGitName(id)>' per imported note, each handed over once, and their
\* (path, blob hash) pairs are the blob leaves of the root tree of the last
\* commit.
C23_IndexMatchesTree ==
    pc = "done" =>
        /\ Len(index) = Len(notes)
        /\ \A k \in 1..Len(notes) :
               index[k] = [mode |-> "100644", hash |-> NoteBlob(notes[k]),
                           path |-> idToGitName(notes[k].ID)]
        /\ Cardinality(IndexPairs) = Len(notes)
        /\ g.indexBuf = <<>>
        /\ notes # <<>> =>
               IndexPairs = LeafPairs(commitLog[Len(commitLog)].root)

\* An import of more notes than one batch has returned without error.
C23_Witness ==
    /\ pc = "done" /\ Len(index) > BatchSize
    /\ IndexPairs = LeafPairs(commitLog[Len(commitLog)].root)

\* The commit h, its ancestors and the trees of all of them are stored whole
\* under their final paths.
ChainStored(h) ==
    LET w == ParentWalk(h, MaxNotes)
    IN \A k \in 1..Len(w) :
         /\ w[k] # -1
         /\ Readable(sha1[w[k]].b.tree)
         /\ \A e \in LeafPairs(sha1[w[k]].b.tree) : Stored(e[2])

\* The commit a is a proper ancestor of the commit b.
AncestorOf(a, b) ==
    LET w == ParentWalk(b, MaxNotes)
    IN \E k \in 2..Len(w) : w[k] = a

C25_IndexNotBehindRef ==
    ref # emptySHA1 =>
        \A k \in 1..Len(commitLog) :
            commitLog[k].hash = ref => LeafPairs(commitLog[k].root) \subseteq IndexPairs

\* ------------------------------------------------------------- claims, concurrency
\* C26: when two writers call hashObject with the same type and payload on
\* one repository directory, the file under the final path is never there
\* partly written, and both calls return the same hash without an error.
C26_ConcurrentPuts ==
    /\ cw.fin # 0 => cw.ino[cw.fin] = WholeFile
    /\ \A x \in Writers :
         cw.w[x].step = "ret" => (~cw.w[x].err /\ cw.w[x].h = cw.w[1].h)
\* The entry e belongs to the node a worker wrote the tree r for: a blob
\* entry is the blob of an inserted id of that node, a tree entry the tree
\* written for one of the node's slots.
OwnEntry(r, e) ==
    IF e.mode = "100644"
    THEN /\ r.node # "root"
         /\ \E k \in 1..Len(calls) :
              /\ calls[k][1] \div Radix = r.num
              /\ e.name = BlobEntryName(calls[k][1] % Radix)
              /\ e.hash = calls[k][2]
    ELSE \E r2 \in pw.written :
           /\ r2.node # "root" /\ r2.h = e.hash
           /\ e.name = TreeEntryName(r2.num % Radix)
           /\ r2.num \div Radix = (IF r.node = "root" THEN 0 ELSE r.num)
           /\ r.node # "root" => r2.num # 0

\* C27: when two workers call addWriteTree on one GitRepo with ids below
\* different entries of the root, every tree object written holds only the
\* entries of its own node, and when both calls have returned the root built
\* from the forest holds both blobs at their paths, as after the two
\* insertions one after the other.
C27_PartitionedInsertion ==
    /\ \A r \in pw.written :
         \A k \in 1..Len(sha1[r.h].b) : OwnEntry(r, sha1[r.h].b[k])
    /\ (\A x \in Workers : pw.w[x].step = "done") =>
         LET root == SHA1sum(sha1, Encoded("tree", writeRoot(g)))
         IN /\ root \in 1..Len(sha1)
            /\ LeafPairs(root) = CalledPairs
            /\ root = RefHash(CalledPairs)

C29_NoLostUpdate ==
    \A x, y \in Callers :
        ( /\ x # y
          /\ db.call[x].op = "updateNote" /\ db.call[y].op = "updateNote"
          /\ db.call[x].noteID = db.call[y].noteID
          /\ db.call[x].sha1sum = sha1sum(FirstNote)
          /\ db.call[y].sha1sum = sha1sum(FirstNote)
          /\ db.call[x].text # db.call[y].text )
        => ~(db.call[x].done /\ db.call[y].done)

\* C30: with git enabled, a call of DB.addNote or DB.updateNote that has
\* returned committed its revision to the database if and only if a git
\* commit for that revision is on the branch.
C30_DatabaseAndGitInStep ==
    db.git =>
        \A x \in Callers :
            LET c == db.call[x] IN
            c.step = "ret" =>
                (c.done <=> ( /\ c.commit \in 1..Len(db.branch)
                              /\ db.branch[c.commit].msg = c.noteID
                              /\ [name |-> idToGitName(c.noteID),
                                   blob |-> gitFile(c.text, c.tags)]
                                     \in db.branch[c.commit].tree ))
====
